---- MODULE Spec2Model ----
(***************************************************************************)
(* Model of plugins/modules/configuration.py: the Bamboo agent            *)
(* configuration module.  One run of main() is a linear state machine     *)
(* over the controller phases; the HTTP server, the agent's home          *)
(* directory and the wall clock are the environment.                      *)
(*                                                                         *)
(* Python values:  None is <<>>, a present value v is <<v>> (Optional);   *)
(* a dict whose iteration order matters (assignments) is a sequence of    *)
(* <<key, value>> pairs in insertion order, compared as a mapping.        *)
(***************************************************************************)
EXTENDS Integers, Sequences, FiniteSets, TLC

VARIABLES
    params,     \* module.params: the desired state and check_mode
    home,       \* the files of bamboo-agent-home
    srv,        \* the Bamboo server's state
    elapsed,    \* time.time() - start of the running retry() call, else 0
    pc,         \* position of main() (or of a stand-alone retry call)
    error,      \* the exception that ended the run, None while running
    state,      \* BambooAgent.state: State.initial and State.current
    cache,      \* the lru_cache of info(), assignments(), _search_assignments()
    resolved,   \* the mapping resolve_assignments() is building / has returned
    iter,       \* loop position inside resolve_assignments / update_assignments
    retry,      \* the frame of the running retry() call
    log,        \* every request handed to the request handler, in order
    busyObs,    \* the values busy() has returned, in order
    opTrace,    \* calls on the unit studied on its own and their outcomes; the
                \* report of the first run when main() is run twice
    result      \* arguments of exit_json / value returned by retry()

vars == <<params, home, srv, elapsed, pc, error, state, cache, resolved, iter,
          retry, log, busyObs, opTrace, result>>

----------------------------------------------------------------------------
(* Bounds of the model *)

\* largest timeout (authentication_timeout, busy_timeout) drawn, in clock units
MaxTimeout == 1
\* largest busy_polling_interval drawn, in clock units
MaxInterval == 1
\* cap on the query() invocations of one retry() call
MaxAttempts == 3
\* cap on the size of the mappings drawn for update_assignments
MaxAssign == 2
\* cap on the calls made on a State object taken on its own
MaxOps == 4
\* longest list of desired assignments handed to resolve_assignments() on its own
MaxList == 3

----------------------------------------------------------------------------
(* Python values *)

None == <<>>
Some(v) == <<v>>
Val(o) == o[1]

\* ordered dict as a sequence of <<key, value>> pairs
DictKeys(d) == {d[i][1] : i \in 1..Len(d)}
DictHas(d, k) == \E i \in 1..Len(d) : d[i][1] = k
DictGet(d, k) == LET i == CHOOSE j \in 1..Len(d) : d[j][1] = k IN d[i][2]
DictSet(d, k, v) ==
    IF DictHas(d, k)
    THEN [i \in 1..Len(d) |-> IF d[i][1] = k THEN <<k, v>> ELSE d[i]]
    ELSE Append(d, <<k, v>>)
DictPop(d, k) == SelectSeq(d, LAMBDA kv : kv[1] # k)
DictAsMap(d) == [k \in DictKeys(d) |-> DictGet(d, k)]
\* dict == dict ignores the insertion order
DictEq(a, b) == DictAsMap(a) = DictAsMap(b)

Upper(etype) == IF etype = "plan" THEN "PLAN" ELSE "PROJECT"

----------------------------------------------------------------------------
(* Exceptions *)

BambooAgentError ==
    {"BambooAgentError", "RecoverableBambooAgentError",
     "SelfRecoverableBambooAgentError", "ServerCommunicationError",
     "AgentBusy", "MissingUuid", "AssignmentNotFound"}

\* what retry() would catch with "except RecoverableBambooAgentError"
RecoverableCaught ==
    {"RecoverableBambooAgentError", "SelfRecoverableBambooAgentError",
     "ServerCommunicationError", "AgentBusy", "MissingUuid"}
SelfRecoverableBambooAgentError ==
    {"SelfRecoverableBambooAgentError", "AgentBusy", "MissingUuid"}

\* the except clause of main(): what it does not catch leaves as a traceback
MainCatches(e) == e \in BambooAgentError \cup {"URLError"}

\* where main() goes when a phase raises e
PropagateSwallow(e) == "delete"
Propagate(e) == IF MainCatches(e) THEN "failed" ELSE "crashed"

Terminal == {"done", "failed", "crashed"}

----------------------------------------------------------------------------
(* State *)

Keys == {"deleted", "info", "authenticated", "assignments"}

\* State(deleted=False)
StateNew ==
    LET s == [k \in Keys |-> IF k = "deleted" THEN Some(FALSE) ELSE None]
    IN  [initial |-> s, current |-> s]

StateSet(s, key, value) ==
    [initial |-> IF s.initial[key] = None
                 THEN [s.initial EXCEPT ![key] = Some(value)]
                 ELSE s.initial,
     current |-> [s.current EXCEPT ![key] = Some(value)]]

\* dict() as the value of a key: an info record with no field, or an empty mapping
EmptyDict(key) == IF key = "info" THEN Some(<<>>) ELSE <<>>

\* State.__getitem__: the state after the read (an absent key is materialised)
StateGet(s, key) ==
    IF s.current[key] = None THEN StateSet(s, key, EmptyDict(key)) ELSE s

SlotEq(key, a, b) ==
    IF key = "assignments" /\ a # None /\ b # None
    THEN DictEq(Val(a), Val(b))
    ELSE a = b

\* a comparison of the key sets only
StateChangedByKeys(s) == \E k \in Keys : (s.current[k] = None) # (s.initial[k] = None)
\* a comparison that leaves the agent record out
StateChangedExceptInfo(s) ==
    \E k \in Keys \ {"info"} : ~SlotEq(k, s.current[k], s.initial[k])
StateChanged(s) == \E k \in Keys : ~SlotEq(k, s.current[k], s.initial[k])

----------------------------------------------------------------------------
(* Identity files *)

\* uuid-temp.properties only
UuidTempOnly(h) == h.tmp
UuidTempFirst(h) == IF h.tmp # None THEN h.tmp ELSE IF h.cfg # None THEN Some(Val(h.cfg).uuid) ELSE None
Uuid(h) == IF h.cfg # None THEN Some(Val(h.cfg).uuid) ELSE h.tmp

\* an id that is not read again once the file was found without one
IdNotReRead(h) == None
Id(h) == IF h.cfg # None THEN Val(h.cfg).id ELSE None

----------------------------------------------------------------------------
(* request() and change() *)

Statuses == {200, 204, 302, 400}

\* what the request handler does: a response with a status code, or URLError
Outcomes == [ok : {TRUE}, status : Statuses] \cup {[ok |-> FALSE, status |-> 0]}

ExpectedStatusAlways200(method) == 200
ExpectedStatus(method) == IF method \in {"PUT", "DELETE"} THEN 204 ELSE 200

RequestOk(method, o, allow_redirect) ==
    /\ o.ok
    /\ \/ o.status = ExpectedStatus(method)
       \/ allow_redirect /\ o.status = 302

RequestError(o) == IF o.ok THEN "ServerCommunicationError" ELSE "URLError"

Req(method, kind, by, arg) ==
    [method |-> method, kind |-> kind, by |-> by, arg |-> arg]

\* change(): the request is sent unless in check mode
ChangeSendsAlways(check_mode) == TRUE
ChangeSendsNever(check_mode) == FALSE
ChangeSends(check_mode) == ~check_mode

\* the controller's "if not self.agent.check_mode:" around each retry()
PollsAlways(check_mode) == TRUE
PollsNever(check_mode) == FALSE
Polls(check_mode) == ~check_mode

\* change(): state_update runs after request() has returned; when request()
\* raises, the state is the one before the call
ChangeStateFirst(sent, before, after) == after
ChangeStateSkipped(sent, before, after) == before
ChangeState(sent, before, after) == IF sent THEN after ELSE before

\* the value change() returns to its caller
ChangeReturn == None

Truthy(v) == v # None /\ v # Some(FALSE)

----------------------------------------------------------------------------
(* Server *)

\* GET /rest/api/latest/agent/ filtered by id(): the dict, or None
InfoLookup(s, h) ==
    IF s.agent # None /\ Id(h) # None /\ Val(s.agent).id = Val(Id(h))
    THEN Some(Val(s.agent))
    ELSE None

\* search results of the server per entity type: <<key, searchEntity.id>>
SearchResults(etype) ==
    IF etype = "PLAN" THEN << <<"PL", 1>>, <<"PM", 2>> >>
    ELSE << <<"PR", 3>> >>

\* the server's view after a successful mutation
SrvAgentSet(s, field, v) ==
    IF s.agent = None THEN s
    ELSE [s EXCEPT !.agent = Some([Val(s.agent) EXCEPT ![field] = v])]

----------------------------------------------------------------------------
(* retry() *)

\* no retry() call is running
RetryIdle ==
    [timeout |-> None, interval |-> 0, attempts |-> 0, sleeps |-> 0,
     phase |-> "idle"]

\* start = time.time(), then the loop is entered
RetryStart(timeout, interval) ==
    [timeout |-> timeout, interval |-> interval, attempts |-> 0, sleeps |-> 0,
     phase |-> "query"]

\* the except branch: time.time() > start + timeout, after a self-recoverable
\* failure seen when time.time() - start = e
RetryTimedOutIgnoringNone(r, e) ==
    e > (IF r.timeout = None THEN 0 ELSE Val(r.timeout))
RetryTimedOutNever(r, e) == FALSE
RetryTimedOut(r, e) == r.timeout # None /\ e > Val(r.timeout)

RetryAttempt(r) == [r EXCEPT !.attempts = @ + 1]
\* a sleep made after the invocation that succeeded as well
RetryReturnedAfterSleep(r) ==
    [RetryAttempt(r) EXCEPT !.phase = "returned", !.sleeps = @ + 1]
RetryReturned(r) == [RetryAttempt(r) EXCEPT !.phase = "returned"]
RetryRaised(r) == [RetryAttempt(r) EXCEPT !.phase = "raised"]
RetryToSleep(r) == [RetryAttempt(r) EXCEPT !.phase = "sleep"]

Timeouts == {None} \cup {Some(t) : t \in 0..MaxTimeout}
Intervals == 0..MaxInterval

\* interval of the availability wait
AuthInterval == 1

----------------------------------------------------------------------------
(* main(): the phases in order *)

NextPhaseDeleteFirst(p) ==
    CASE p = "authenticate" -> "set_enabled"
      [] p = "set_enabled" -> "set_name"
      [] p = "set_name" -> "resolve"
      [] p = "resolve" -> "update_assignments"
      [] p = "update_assignments" -> "delete"
      [] p = "delete" -> "block_while_busy"
      [] p = "block_while_busy" -> "exit"
\* the desired assignments resolved before set_enabled and set_name
NextPhaseResolveFirst(p) ==
    CASE p = "authenticate" -> "resolve"
      [] p = "resolve" -> "set_enabled"
      [] p = "set_enabled" -> "set_name"
      [] p = "set_name" -> "update_assignments"
      [] p = "update_assignments" -> "block_while_busy"
      [] p = "block_while_busy" -> "delete"
      [] p = "delete" -> "exit"
NextPhase(p) ==
    CASE p = "authenticate" -> "set_enabled"
      [] p = "set_enabled" -> "set_name"
      [] p = "set_name" -> "resolve"
      [] p = "resolve" -> "update_assignments"
      [] p = "update_assignments" -> "block_while_busy"
      [] p = "block_while_busy" -> "delete"
      [] p = "delete" -> "exit"

\* a step of the run that leaves the phase p for the next one, or stays inside it
Goto(p, lg, st, ca) ==
    /\ pc' = p
    /\ error' = error
    /\ log' = lg
    /\ state' = st
    /\ cache' = ca

\* an exception leaves the try block of main(); by is the phase that raised it
Raise(e, lg, st, ca) ==
    /\ pc' = Propagate(e)
    /\ error' = Some([type |-> e, by |-> pc, requests |-> Len(lg)])
    /\ log' = lg
    /\ state' = st
    /\ cache' = ca

\* info(): the cached value, or one GET of the agent list of server s, recorded
\* under "info"
InfoCallOn(s, o, lg, st, ca, by) ==
    IF ca.info
    THEN [err |-> None, log |-> lg, state |-> st, cache |-> ca]
    ELSE LET lg1 == Append(lg, Req("GET", "agents", by, None)) IN
         IF ~RequestOk("GET", o, FALSE)
         THEN [err |-> Some(RequestError(o)), log |-> lg1, state |-> st, cache |-> ca]
         ELSE [err |-> None, log |-> lg1,
               state |-> StateSet(st, "info", InfoLookup(s, home)),
               cache |-> [ca EXCEPT !.info = TRUE]]

InfoCall(o, lg, st, ca, by) == InfoCallOn(srv, o, lg, st, ca, by)

\* info.cache_clear()
CacheKeep(ca) == ca
CacheClear(ca) == [ca EXCEPT !.info = FALSE]

\* the value info() returned: None or Some(record)
InfoValue(st) == Val(st.current["info"])

\* state["info"].__setitem__(field, v)
InfoUpdateUnlessCheckMode(st, field, v) ==
    IF params.check_mode THEN st
    ELSE LET s == StateGet(st, "info") IN
         [s EXCEPT !.current["info"] =
             Some(Some([Val(InfoValue(s)) EXCEPT ![field] = v]))]
\* an update that also reaches the copy held in initial
InfoUpdateBoth(st, field, v) ==
    LET s == StateGet(st, "info")
        new == Some(Some([Val(InfoValue(s)) EXCEPT ![field] = v]))
    IN  [s EXCEPT !.current["info"] = new, !.initial["info"] = new]
InfoUpdate(st, field, v) ==
    LET s == StateGet(st, "info") IN
    [s EXCEPT !.current["info"] =
        Some(Some([Val(InfoValue(s)) EXCEPT ![field] = v]))]

\* state["assignments"], after materialisation
AssignmentsValue(st) == Val(StateGet(st, "assignments").current["assignments"])

AssignmentsUpdate(st, d) ==
    [StateGet(st, "assignments") EXCEPT !.current["assignments"] = Some(d)]

----------------------------------------------------------------------------
(* Inputs and initial states of a run of main() *)

AgentRecords == [id : {1234}, name : {"a", "b"}, enabled : BOOLEAN, busy : BOOLEAN]

\* an option of module.params that main() has not handed to its phase yet
Unread == <<"unread", "unread">>

\* the values an option can have when it is read: any of S the first time, the
\* value it has in module.params afterwards
Drawn(p, S) == IF p = Unread THEN S ELSE {p}

\* the values of the options, as main() hands them to the phases
EnabledOptions == {None, Some(TRUE), Some(FALSE)}
NameOptions == {None, Some("a")}
AssignmentsOptions ==
    {None,
     Some(<<>>),
     Some(<< [type |-> "plan", key |-> "PL"], [type |-> "project", key |-> "PR"] >>),
     Some(<< [type |-> "plan", key |-> "PL"], [type |-> "plan", key |-> "PM"] >>),
     Some(<< [type |-> "plan", key |-> "PL"], [type |-> "plan", key |-> "XX"] >>)}
BlockWhileBusyOptions == {None, Some(TRUE)}
DeletedOptions == {Some(FALSE), Some(TRUE)}

\* the record of an agent that has just been approved: enabled, default name
NewAgentRecords == {r \in AgentRecords : r.enabled /\ r.name = "b"}

\* bamboo-agent-home together with what the server knows of the agent:
\* no file yet; the temporary uuid file of an agent that is or is not yet in the
\* pending list; the config file of an agent the server lists, does not list, or
\* holds as pending again; a config file without <id>
Scenes ==
    {[home |-> [cfg |-> None, tmp |-> None], pending |-> {}, agent |-> None]}
    \cup
    {[home |-> [cfg |-> None, tmp |-> Some("U")], pending |-> p, agent |-> None]
        : p \in {{}, {"U"}}}
    \cup
    {[home |-> [cfg |-> Some([uuid |-> "U", id |-> Some(1234)]), tmp |-> None],
      pending |-> {}, agent |-> a]
        : a \in {None} \cup {Some(r) : r \in AgentRecords}}
    \cup
    {[home |-> [cfg |-> Some([uuid |-> "U", id |-> Some(1234)]), tmp |-> None],
      pending |-> {"U"}, agent |-> a]
        : a \in {None} \cup {Some(r) : r \in NewAgentRecords}}
    \cup
    {[home |-> [cfg |-> Some([uuid |-> "U", id |-> None]), tmp |-> Some("U")],
      pending |-> {"U"}, agent |-> None]}

\* the server's assignment list of the agent
ServerAssignments ==
    {<<>>,
     << <<1, "PLAN">>, <<3, "PROJECT">> >>,
     << <<2, "PLAN">>, <<3, "PLAN">> >>}

CacheNew == [info |-> FALSE, assignments |-> FALSE, search |-> {}]

\* the program's variables once BambooAgent and the controller are constructed
Constructed ==
    /\ elapsed = 0
    /\ error = None
    /\ state = StateNew
    /\ cache = CacheNew
    /\ resolved = None
    /\ iter = 1
    /\ retry = RetryIdle
    /\ log = <<>>
    /\ busyObs = <<>>
    /\ opTrace = <<>>
    /\ result = None

Init ==
    /\ \E c \in BOOLEAN :
        params = [check_mode |-> c, enabled |-> Unread, name |-> Unread,
                  assignments |-> Unread, block_while_busy |-> Unread,
                  deleted |-> Unread]
    /\ \E sc \in Scenes, sa \in ServerAssignments :
        /\ home = sc.home
        /\ srv = [pending |-> sc.pending, agent |-> sc.agent,
                  assignments |-> sa, approved |-> FALSE]
    /\ pc = "authenticate"
    /\ Constructed

----------------------------------------------------------------------------
(* Phase 1: controller.authenticate() *)

\* agent.authenticated(), and the branch on its result
AgentAuthenticated ==
    /\ pc = "authenticate"
    /\ LET by == "authenticate"
           uuid == Uuid(home)
           Done(res, lg, st, ca) ==
               Goto(IF res THEN NextPhase("authenticate") ELSE "agent_authenticate",
                    lg, StateSet(st, "authenticated", res), ca)
       IN  IF uuid = None
           THEN Done(FALSE, log, state, cache)
           ELSE \E o1 \in Outcomes :
                LET lg1 == Append(log, Req("GET", "pending", by, None)) IN
                IF ~RequestOk("GET", o1, FALSE)
                THEN Raise(RequestError(o1), lg1, state, cache)
                ELSE IF Val(uuid) \in srv.pending
                THEN Done(FALSE, lg1, state, cache)
                ELSE \* available()
                     IF Id(home) = None
                     THEN Done(FALSE, lg1, state, cache)
                     ELSE \E o2 \in Outcomes :
                          LET r == InfoCall(o2, lg1, state, CacheClear(cache), by) IN
                          IF r.err # None
                          THEN Raise(Val(r.err), r.log, r.state, r.cache)
                          ELSE Done(InfoValue(r.state) # None, r.log, r.state, r.cache)
    /\ UNCHANGED <<params, home, srv, elapsed, resolved, iter, retry, busyObs,
                   opTrace, result>>

\* agent.authenticate(), then the start of the availability wait
AgentAuthenticate ==
    /\ pc = "agent_authenticate"
    /\ LET by == "authenticate"
           uuid == Uuid(home)
           sends == ChangeSends(params.check_mode)
           lg == IF sends THEN Append(log, Req("PUT", "authentication", by, uuid))
                 ELSE log
           st == StateSet(state, "authenticated", TRUE)
       IN  IF uuid = None
           THEN /\ Raise("MissingUuid", log, state, cache)
                /\ UNCHANGED <<srv, retry>>
           ELSE \E o \in Outcomes :
                IF sends /\ ~RequestOk("PUT", o, FALSE)
                THEN /\ Raise(RequestError(o), lg, ChangeState(FALSE, state, st), cache)
                     /\ UNCHANGED <<srv, retry>>
                ELSE /\ srv' = IF sends THEN [srv EXCEPT !.approved = TRUE] ELSE srv
                     /\ IF Polls(params.check_mode)
                        THEN /\ Goto("auth_wait", lg, st, cache)
                             /\ \E t \in 0..MaxTimeout :
                                 retry' = RetryStart(Some(t), AuthInterval)
                        ELSE /\ Goto(NextPhase("authenticate"), lg, st, cache)
                             /\ retry' = retry
    /\ UNCHANGED <<params, home, elapsed, resolved, iter, busyObs, opTrace, result>>

\* retry() returns to the controller: its frame is gone
RetryReturns == retry' = RetryIdle /\ elapsed' = 0

\* retry() is left by an exception: its frame is gone
RetryRaises == retry' = RetryIdle /\ elapsed' = 0

\* retry() caught a self-recoverable error and goes on to time.sleep
RetrySleeps == retry' = RetryToSleep(retry) /\ elapsed' = elapsed

\* one pass of the retry loop around available()
RetryAvailable ==
    /\ pc = "auth_wait"
    /\ retry.phase = "query"
    /\ retry.attempts < MaxAttempts
    /\ LET by == "authenticate"
           Failed(lg, st, ca) ==
               IF RetryTimedOut(retry, elapsed)
               THEN Raise("TimeoutError", lg, st, ca) /\ RetryRaises
               ELSE Goto(pc, lg, st, ca) /\ RetrySleeps
       IN  IF Id(home) = None
           THEN Failed(log, state, cache)
           ELSE \E o \in Outcomes :
                LET r == InfoCall(o, log, state, CacheClear(cache), by) IN
                IF r.err # None
                THEN Raise(Val(r.err), r.log, r.state, r.cache) /\ RetryRaises
                ELSE IF InfoValue(r.state) # None
                THEN /\ Goto(NextPhase("authenticate"), r.log, r.state, r.cache)
                     /\ RetryReturns
                ELSE Failed(r.log, r.state, r.cache)
    /\ UNCHANGED <<params, home, srv, resolved, iter, busyObs, opTrace, result>>

\* time.sleep(interval) of retry()
RetrySleep ==
    /\ retry.phase = "sleep"
    /\ pc \notin Terminal
    /\ elapsed' = elapsed + retry.interval
    /\ retry' = [retry EXCEPT !.sleeps = @ + 1, !.phase = "query"]
    /\ UNCHANGED <<params, home, srv, pc, error, state, cache, resolved, iter,
                   log, busyObs, opTrace, result>>

----------------------------------------------------------------------------
(* Phases 2 and 3: set_enabled, set_name *)

\* the controller's test before a mutation
NeedsChangeAlways(desired, observed) == desired # None
NeedsChange(desired, observed) == desired # None /\ Val(desired) # observed

\* a read of info()[field] for a phase, then the test; goes to the mutation or on
ReadAndCompare(phase, field, desired, mutation) ==
    IF desired = None
    THEN Goto(NextPhase(phase), log, state, cache)
    ELSE \E o \in Outcomes :
         LET r == InfoCall(o, log, state, cache, phase) IN
         IF r.err # None
         THEN Raise(Val(r.err), r.log, r.state, r.cache)
         ELSE IF InfoValue(r.state) = None
         THEN Raise("TypeError", r.log, r.state, r.cache)
         ELSE Goto(IF NeedsChange(desired, Val(InfoValue(r.state))[field])
                   THEN mutation ELSE NextPhase(phase),
                   r.log, r.state, r.cache)

\* change() of one field of the agent: the POST, then the update of state["info"]
ChangeInfo(phase, kind, field, v) ==
    LET sends == ChangeSends(params.check_mode)
        lg == IF sends THEN Append(log, Req("POST", kind, phase, None)) ELSE log
    IN  \E o \in Outcomes :
        IF sends /\ ~RequestOk("POST", o, TRUE)
        THEN Raise(RequestError(o), lg,
                   ChangeState(FALSE, state, InfoUpdate(state, field, v)), cache)
             /\ srv' = srv
        ELSE /\ Goto(NextPhase(phase), lg,
                     ChangeState(TRUE, state, InfoUpdate(state, field, v)), cache)
             /\ srv' = IF sends THEN SrvAgentSet(srv, field, v) ELSE srv

\* controller.set_enabled(enabled)
CtlSetEnabled ==
    /\ pc = "set_enabled"
    /\ \E d \in Drawn(params.enabled, EnabledOptions) :
        /\ params' = [params EXCEPT !.enabled = d]
        /\ ReadAndCompare("set_enabled", "enabled", d, "agent_enable")
    /\ UNCHANGED <<home, srv, elapsed, resolved, iter, retry, busyObs, opTrace,
                   result>>

\* agent.enable() / agent.disable()
AgentEnable ==
    /\ pc = "agent_enable"
    /\ ChangeInfo("set_enabled",
                  IF Val(params.enabled) THEN "enable" ELSE "disable",
                  "enabled", Val(params.enabled))
    /\ UNCHANGED <<params, home, elapsed, resolved, iter, retry, busyObs, opTrace,
                   result>>

\* controller.set_name(name)
CtlSetName ==
    /\ pc = "set_name"
    /\ \E d \in Drawn(params.name, NameOptions) :
        /\ params' = [params EXCEPT !.name = d]
        /\ ReadAndCompare("set_name", "name", d, "agent_set_name")
    /\ UNCHANGED <<home, srv, elapsed, resolved, iter, retry, busyObs, opTrace,
                   result>>

\* agent.set_name(name)
AgentSetName ==
    /\ pc = "agent_set_name"
    /\ ChangeInfo("set_name", "set_name", "name", Val(params.name))
    /\ UNCHANGED <<params, home, elapsed, resolved, iter, retry, busyObs, opTrace,
                   result>>

----------------------------------------------------------------------------
(* Phase 4: resolve_assignments, update_assignments *)

SearchFindFirst(results, key) == Some(results[1][2])
\* next(result["searchEntity"]["id"] for result in results if result["id"] == key)
SearchFind(results, key) ==
    IF \E i \in 1..Len(results) : results[i][1] = key
    THEN Some(results[CHOOSE i \in 1..Len(results) :
                        /\ results[i][1] = key
                        /\ \A j \in 1..(i - 1) : results[j][1] # key][2])
    ELSE None

\* lru_cache on _search_assignments(etype): a type searched before is not
\* requested again
SearchCachedNever(ca, etype) == FALSE
SearchCached(ca, etype) == etype \in ca.search

\* one pass of the loop of resolve_assignments(assignments)
AgentResolveAssignments ==
    /\ pc = "resolve"
    /\ \E a \in Drawn(params.assignments, AssignmentsOptions) :
       LET by == "resolve_assignments"
           Next1 == NextPhase("resolve")
       IN  /\ params' = [params EXCEPT !.assignments = a]
           /\ IF a = None
              THEN Goto(Next1, log, state, cache) /\ UNCHANGED <<resolved, iter>>
              ELSE IF Val(a) = <<>>
              THEN /\ Goto(Next1, log, state, cache)
                   /\ resolved' = Some(<<>>)
                   /\ iter' = iter
              ELSE LET list == Val(a)
                       key == list[iter].key
                       etype == Upper(list[iter].type)
                       hit == SearchCached(cache, etype)
                       lg == IF hit THEN log
                             ELSE Append(log, Req("GET", "search", by, <<etype>>))
                       ca == [cache EXCEPT !.search = @ \cup {etype}]
                       eid == SearchFind(SearchResults(etype), key)
                       sofar == IF resolved = None THEN <<>> ELSE Val(resolved)
                   IN  \E o \in Outcomes :
                       IF ~hit /\ ~RequestOk("GET", o, FALSE)
                       THEN Raise(RequestError(o), lg, state, cache)
                            /\ UNCHANGED <<resolved, iter>>
                       ELSE IF eid = None
                       THEN Raise("AssignmentNotFound", lg, state, ca)
                            /\ UNCHANGED <<resolved, iter>>
                       ELSE /\ resolved' = Some(DictSet(sofar, Val(eid), etype))
                            /\ IF iter = Len(list)
                               THEN Goto(Next1, lg, state, ca) /\ iter' = 1
                               ELSE Goto(pc, lg, state, ca) /\ iter' = iter + 1
    /\ UNCHANGED <<home, srv, elapsed, retry, busyObs, opTrace, result>>

\* update_assignments(): the read of agent.assignments() and the comparison
CtlUpdateAssignments ==
    /\ pc = "update_assignments"
    /\ LET by == "update_assignments" IN
       IF resolved = None
       THEN Goto(NextPhase("update_assignments"), log, state, cache)
       ELSE \E o \in Outcomes :
            LET lg == Append(log, Req("GET", "assignments", by, None))
                st == StateSet(state, "assignments", srv.assignments)
                ca == [cache EXCEPT !.assignments = TRUE]
            IN  IF ~RequestOk("GET", o, FALSE)
                THEN Raise(RequestError(o), lg, state, cache)
                ELSE Goto(IF ~DictEq(srv.assignments, Val(resolved))
                          THEN "add_assignments"
                          ELSE NextPhase("update_assignments"),
                          lg, st, ca)
    /\ iter' = 1
    /\ UNCHANGED <<params, home, srv, elapsed, resolved, retry, busyObs, opTrace,
                   result>>

\* positions of d, from position i on, whose key is not a key of other
Candidates(d, other, i) == {j \in i..Len(d) : ~DictHas(other, d[j][1])}

\* the generator expression yields its items in the iteration order of the dict
Max(S) == CHOOSE x \in S : \A y \in S : x >= y
Min(S) == CHOOSE x \in S : \A y \in S : x <= y

\* all(agent.add_assignment(etype, eid) for eid, etype in assignments.items()
\*     if eid not in current_assignments)
\* all() asks the generator for the next call only while the calls return truthy
CtlAddAssignments ==
    /\ pc = "add_assignments"
    /\ LET by == "update_assignments"
           desired == Val(resolved)
           current == AssignmentsValue(state)
           cand == Candidates(desired, current, iter)
       IN  IF cand = {}
           THEN /\ Goto("remove_assignments", log, state, cache)
                /\ iter' = 1
                /\ srv' = srv
           ELSE LET j == Min(cand)
                    eid == desired[j][1]
                    etype == desired[j][2]
                    sends == ChangeSends(params.check_mode)
                    lg == IF sends
                          THEN Append(log, Req("POST", "add_assignment", by,
                                               <<etype, eid>>))
                          ELSE log
                    st == AssignmentsUpdate(state, DictSet(current, eid, etype))
                IN  \E o \in Outcomes :
                    IF sends /\ ~RequestOk("POST", o, FALSE)
                    THEN Raise(RequestError(o), lg, ChangeState(FALSE, state, st), cache)
                         /\ UNCHANGED <<iter, srv>>
                    ELSE /\ srv' = IF sends
                                   THEN [srv EXCEPT !.assignments =
                                            DictSet(@, eid, etype)]
                                   ELSE srv
                         /\ IF Truthy(ChangeReturn)
                            THEN Goto(pc, lg, st, cache) /\ iter' = j + 1
                            ELSE Goto("remove_assignments", lg, st, cache)
                                 /\ iter' = 1
    /\ UNCHANGED <<params, home, elapsed, resolved, retry, busyObs, opTrace, result>>

\* all(agent.remove_assignment(etype, eid) for eid, etype in
\*     current_assignments.items() if eid not in assignments)
\* current_assignments is the dict held in state: remove_assignment pops from it
CtlRemoveAssignments ==
    /\ pc = "remove_assignments"
    /\ LET by == "update_assignments"
           desired == Val(resolved)
           current == AssignmentsValue(state)
           cand == Candidates(current, desired, iter)
       IN  IF cand = {}
           THEN /\ Goto(NextPhase("update_assignments"), log, state, cache)
                /\ srv' = srv
           ELSE LET j == Min(cand)
                    eid == current[j][1]
                    etype == current[j][2]
                    sends == ChangeSends(params.check_mode)
                    lg == IF sends
                          THEN Append(log, Req("DELETE", "remove_assignment", by,
                                               <<etype, eid>>))
                          ELSE log
                    st == AssignmentsUpdate(state, DictPop(current, eid))
                IN  \E o \in Outcomes :
                    IF sends /\ ~RequestOk("DELETE", o, FALSE)
                    THEN Raise(RequestError(o), lg, ChangeState(FALSE, state, st), cache)
                         /\ srv' = srv
                    ELSE /\ srv' = IF sends
                                   THEN [srv EXCEPT !.assignments = DictPop(@, eid)]
                                   ELSE srv
                         /\ IF Truthy(ChangeReturn)
                            THEN \* the dict changed size during the iteration
                                 Raise("RuntimeError", lg, st, cache)
                            ELSE Goto(NextPhase("update_assignments"), lg, st, cache)
    /\ iter' = 1
    /\ UNCHANGED <<params, home, elapsed, resolved, retry, busyObs, opTrace, result>>

----------------------------------------------------------------------------
(* Phase 5: block_while_busy *)

\* main(): if should_block_while_busy: controller.block_while_busy()
CtlBlockWhileBusy ==
    /\ pc = "block_while_busy"
    /\ \E b \in Drawn(params.block_while_busy, BlockWhileBusyOptions) :
        /\ params' = [params EXCEPT !.block_while_busy = b]
        /\ IF Truthy(b) /\ Polls(params.check_mode)
           THEN /\ Goto("busy_wait", log, state, cache)
                /\ \E t \in Timeouts, i \in Intervals : retry' = RetryStart(t, i)
           ELSE /\ Goto(NextPhase("block_while_busy"), log, state, cache)
                /\ retry' = retry
    /\ UNCHANGED <<home, srv, elapsed, resolved, iter, busyObs, opTrace, result>>

\* block(): whether the observed busy flag raises AgentBusy
BlockRaisesNever(busy) == FALSE
BlockRaisesInverted(busy) == ~busy
BlockRaises(busy) == busy

\* one pass of the retry loop around block(): agent.busy() and the test.
\* The agent may have picked up or finished a job since the last request: the
\* server answers with the busy flag b it holds by then.
RetryBusy ==
    /\ pc = "busy_wait"
    /\ retry.phase = "query"
    /\ retry.attempts < MaxAttempts
    /\ \E o \in Outcomes, b \in BOOLEAN :
       LET s == SrvAgentSet(srv, "busy", b)
           r == InfoCallOn(s, o, log, state, CacheClear(cache), "block_while_busy")
       IN  /\ srv' = s
           /\ IF r.err # None
              THEN /\ Raise(Val(r.err), r.log, r.state, r.cache)
                   /\ RetryRaises
                   /\ busyObs' = busyObs
              ELSE IF InfoValue(r.state) = None
              THEN /\ Raise("TypeError", r.log, r.state, r.cache)
                   /\ RetryRaises
                   /\ busyObs' = busyObs
              ELSE LET busy == Val(InfoValue(r.state)).busy IN
                   /\ busyObs' = Append(busyObs, busy)
                   /\ IF ~BlockRaises(busy)
                      THEN /\ Goto(NextPhase("block_while_busy"),
                                   r.log, r.state, r.cache)
                           /\ RetryReturns
                      ELSE IF RetryTimedOut(retry, elapsed)
                      THEN Raise("TimeoutError", r.log, r.state, r.cache)
                           /\ RetryRaises
                      ELSE Goto(pc, r.log, r.state, r.cache) /\ RetrySleeps
    /\ UNCHANGED <<params, home, resolved, iter, opTrace, result>>

----------------------------------------------------------------------------
(* Phase 6: delete, and the report *)

\* a deletion that is skipped for an agent the server does not list
DeleteAskedWhenListed(d) == Truthy(d) /\ srv.agent # None
\* main(): if delete:
DeleteAsked(d) == Truthy(d)

\* main(): if delete: controller.agent.delete()
AgentDelete ==
    /\ pc = "delete"
    /\ \E d \in Drawn(params.deleted, DeletedOptions) :
        /\ params' = [params EXCEPT !.deleted = d]
        /\ IF ~DeleteAsked(d)
           THEN Goto(NextPhase("delete"), log, state, cache) /\ srv' = srv
           ELSE LET sends == ChangeSends(params.check_mode)
                    lg == IF sends
                          THEN Append(log, Req("POST", "delete", "delete", None))
                          ELSE log
                IN  \E o \in Outcomes :
                    IF sends /\ ~RequestOk("POST", o, TRUE)
                    THEN Raise(RequestError(o), lg,
                               ChangeState(FALSE, state,
                                           StateSet(state, "deleted", TRUE)), cache)
                         /\ srv' = srv
                    ELSE /\ Goto(NextPhase("delete"), lg,
                                 StateSet(state, "deleted", TRUE), cache)
                         /\ srv' = IF sends THEN [srv EXCEPT !.agent = None] ELSE srv
    /\ UNCHANGED <<home, elapsed, resolved, iter, retry, busyObs, opTrace, result>>

\* module.exit_json(...): the arguments are evaluated in order, the reads of
\* state[...] materialise absent keys
ExitJson ==
    /\ pc = "exit"
    /\ LET s1 == StateGet(state, "authenticated")
           s2 == StateGet(s1, "assignments")
           s3 == StateGet(s2, "deleted")
           s4 == StateGet(s3, "info")
       IN  /\ result' = Some([changed |-> StateChanged(state),
                              authenticated |-> Val(s4.current["authenticated"]),
                              assignments |-> Val(s4.current["assignments"]),
                              deleted |-> Val(s4.current["deleted"]),
                              info |-> Val(s4.current["info"])])
           /\ Goto("done", log, s4, cache)
    /\ UNCHANGED <<params, home, srv, elapsed, resolved, iter, retry, busyObs,
                   opTrace>>

----------------------------------------------------------------------------
(* Environment *)

Waiting == pc \in {"auth_wait", "busy_wait", "retry"}

\* the clock advances while a query of retry() runs; the model stops it once the
\* deadline of the running call has passed (a call without timeout never reads it)
Tick ==
    /\ Waiting
    /\ retry.phase = "query"
    /\ retry.timeout # None
    /\ elapsed <= Val(retry.timeout)
    /\ elapsed' = elapsed + 1
    /\ UNCHANGED <<params, home, srv, pc, error, state, cache, resolved, iter,
                   retry, log, busyObs, opTrace, result>>

\* the approved agent shows up in the server's agent list
EnvAgentRegisters ==
    /\ pc = "auth_wait"
    /\ srv.approved
    /\ srv.agent = None
    /\ \E r \in NewAgentRecords :
        srv' = [srv EXCEPT !.agent = Some(r), !.pending = {}]
    /\ UNCHANGED <<params, home, elapsed, pc, error, state, cache, resolved, iter,
                   retry, log, busyObs, opTrace, result>>

\* the registered agent writes bamboo-agent.cfg.xml with its id
EnvWritesConfig ==
    /\ pc = "auth_wait"
    /\ srv.agent # None
    /\ Uuid(home) # None
    /\ Id(home) = None
    /\ home' = [home EXCEPT !.cfg = Some([uuid |-> Val(Uuid(home)),
                                          id |-> Some(Val(srv.agent).id)])]
    /\ UNCHANGED <<params, srv, elapsed, pc, error, state, cache, resolved, iter,
                   retry, log, busyObs, opTrace, result>>

----------------------------------------------------------------------------

Next ==
    \/ AgentAuthenticated
    \/ AgentAuthenticate
    \/ RetryAvailable
    \/ RetrySleep
    \/ CtlSetEnabled
    \/ AgentEnable
    \/ CtlSetName
    \/ AgentSetName
    \/ AgentResolveAssignments
    \/ CtlUpdateAssignments
    \/ CtlAddAssignments
    \/ CtlRemoveAssignments
    \/ CtlBlockWhileBusy
    \/ RetryBusy
    \/ AgentDelete
    \/ ExitJson
    \/ Tick
    \/ EnvAgentRegisters
    \/ EnvWritesConfig

Spec == Init /\ [][Next]_vars

----------------------------------------------------------------------------
(* update_assignments(desired) on its own, for any observed and desired mapping *)

EntityIds == {1, 2, 3}
EntityTypes == {"PLAN", "PROJECT"}

\* the mappings entity id -> type with at most MaxAssign entries, in any order
Dicts ==
    {d \in UNION {[1..n -> EntityIds \X EntityTypes] : n \in 0..MaxAssign} :
        \A i, j \in 1..Len(d) : d[i][1] = d[j][1] => i = j}

InitAssign ==
    /\ \E c \in BOOLEAN :
        params = [check_mode |-> c, enabled |-> None, name |-> None,
                  assignments |-> Unread, block_while_busy |-> Unread,
                  deleted |-> Unread]
    /\ home = [cfg |-> Some([uuid |-> "U", id |-> Some(1234)]), tmp |-> None]
    /\ \E observed \in Dicts :
        srv = [pending |-> {},
               agent |-> Some([id |-> 1234, name |-> "a", enabled |-> TRUE,
                               busy |-> FALSE]),
               assignments |-> observed, approved |-> FALSE]
    /\ pc = "update_assignments"
    /\ \E desired \in Dicts :
        /\ Constructed!1 /\ Constructed!2 /\ Constructed!3 /\ Constructed!4
        /\ resolved = Some(desired)
        /\ Constructed!6 /\ Constructed!7 /\ Constructed!8 /\ Constructed!9
        /\ Constructed!10 /\ Constructed!11

NextAssign ==
    \/ CtlUpdateAssignments
    \/ CtlAddAssignments
    \/ CtlRemoveAssignments

SpecAssign == InitAssign /\ [][NextAssign]_vars

----------------------------------------------------------------------------
(* retry(query, timeout, interval) on its own, for any query *)

\* what one invocation of query() does: it returns a value or raises
QueryOutcomes ==
    [kind : {"return"}, value : {"r1", "r2"}]
    \cup
    [kind : {"raise"},
     value : {"SelfRecoverableBambooAgentError", "AgentBusy",
              "ServerCommunicationError", "AssignmentNotFound", "URLError"}]

InitRetry ==
    /\ params = [check_mode |-> FALSE, enabled |-> Unread, name |-> Unread,
                 assignments |-> Unread, block_while_busy |-> Unread,
                 deleted |-> Unread]
    /\ home = [cfg |-> None, tmp |-> None]
    /\ srv = [pending |-> {}, agent |-> None, assignments |-> <<>>,
              approved |-> FALSE]
    /\ pc = "retry"
    /\ Constructed!1 /\ Constructed!2 /\ Constructed!3 /\ Constructed!4
    /\ Constructed!5 /\ Constructed!6
    /\ \E t \in Timeouts, i \in Intervals : retry = RetryStart(t, i)
    /\ Constructed!8 /\ Constructed!9 /\ Constructed!10 /\ Constructed!11

\* one pass of the loop of retry(): try: return query() except SelfRecoverable...
RetryQuery ==
    /\ pc = "retry"
    /\ retry.phase = "query"
    /\ retry.attempts < MaxAttempts
    /\ \E out \in QueryOutcomes :
        /\ opTrace' = Append(opTrace, out)
        /\ IF out.kind = "return"
           THEN /\ pc' = "returned"
                /\ result' = Some(out.value)
                /\ retry' = RetryReturned(retry)
                /\ error' = error
           ELSE IF out.value \notin SelfRecoverableBambooAgentError
           THEN /\ pc' = "raised"
                /\ error' = Some([type |-> out.value, by |-> pc, requests |-> 0])
                /\ retry' = RetryRaised(retry)
                /\ result' = result
           ELSE IF RetryTimedOut(retry, elapsed)
           THEN /\ pc' = "raised"
                /\ error' = Some([type |-> "TimeoutError", by |-> pc, requests |-> 0])
                /\ retry' = RetryRaised(retry)
                /\ result' = result
           ELSE /\ pc' = pc
                /\ retry' = RetryToSleep(retry)
                /\ UNCHANGED <<error, result>>
    /\ UNCHANGED <<params, home, srv, elapsed, state, cache, resolved, iter, log,
                   busyObs>>

NextRetry ==
    \/ RetryQuery
    \/ RetrySleep
    \/ Tick

SpecRetry == InitRetry /\ [][NextRetry]_vars

----------------------------------------------------------------------------
(* Properties of a run of main() *)

Mutating == {"PUT", "POST", "DELETE"}

MutatingRequests == {i \in 1..Len(log) : log[i].method \in Mutating}

RequestsOfKind(kind) == {i \in 1..Len(log) : log[i].kind = kind}

RequestsBy(by) == {i \in 1..Len(log) : log[i].by = by}

\* C1: in check mode no PUT, POST or DELETE is ever handed to the request
\* handler, whatever the desired state and the server's answers: every request
\* of the run is a GET.
C1_CheckModeOnlyReads ==
    params.check_mode => \A i \in 1..Len(log) : log[i].method = "GET"

\* a check-mode run that completed after simulating a change of the agent's
\* fields, of its assignments and its deletion
C1_Witness ==
    /\ params.check_mode
    /\ pc = "done"
    /\ state.current["deleted"] = Some(TRUE)
    /\ state.current["info"] # state.initial["info"]
    /\ ~SlotEq("assignments", state.current["assignments"],
               state.initial["assignments"])
    /\ Len(log) >= 3

\* the agent record and the assignments the run fetched first
FirstInfo == Val(Val(state.initial["info"]))
FirstAssignments == Val(state.initial["assignments"])

\* the run found the agent authenticated and every desired value equal to the
\* server's; deletion is not asked for
AlreadyDesired ==
    /\ pc = "done"
    /\ state.initial["authenticated"] = Some(TRUE)
    /\ params.enabled = None \/ Val(params.enabled) = FirstInfo.enabled
    /\ params.name = None \/ Val(params.name) = FirstInfo.name
    /\ params.assignments = None \/ DictEq(Val(resolved), FirstAssignments)
    /\ ~Truthy(params.deleted)

\* the server still holds the desired values when the run is over
StillDesired ==
    /\ srv.agent # None
    /\ Val(Uuid(home)) \notin srv.pending
    /\ params.enabled = None \/ Val(params.enabled) = Val(srv.agent).enabled
    /\ params.name = None \/ Val(params.name) = Val(srv.agent).name
    /\ params.assignments = None \/ DictEq(Val(resolved), srv.assignments)

\* C2 as stated: an authenticated agent whose name, enabled flag and
\* assignments equal the desired values gives a run without mutating request
\* that reports changed=false.
C2_AsStated ==
    AlreadyDesired => MutatingRequests = {} /\ ~Val(result).changed

\* C2: an authenticated agent whose name, enabled flag and assignments equal the
\* desired values, with deletion not requested and with either no busy wait or
\* an agent that was not busy when first fetched, gives a run without mutating
\* request that reports changed=false and leaves the server in the desired
\* state, so that a second run starts from the same precondition.
C2_Idempotent ==
    AlreadyDesired /\ (busyObs = <<>> \/ ~FirstInfo.busy)
        => /\ MutatingRequests = {}
           /\ ~Val(result).changed
           /\ StillDesired

\* a completed run with every option set, equal to the server's values, that
\* waited for the agent to be idle
C2_Witness ==
    /\ AlreadyDesired
    /\ ~params.check_mode
    /\ params.enabled # None
    /\ params.name # None
    /\ params.assignments # None
    /\ Len(Val(resolved)) = 2
    /\ Len(busyObs) >= 2
    /\ ~FirstInfo.busy

\* position of a phase in main()
Rank(by) ==
    CASE by = "authenticate" -> 1
      [] by = "set_enabled" -> 2
      [] by = "set_name" -> 3
      [] by = "resolve_assignments" -> 4
      [] by = "update_assignments" -> 5
      [] by = "block_while_busy" -> 6
      [] by = "delete" -> 7

\* C5: the requests of a run are ordered by phase: authenticate, set_enabled,
\* set_name, resolve_assignments, update_assignments, block_while_busy, delete;
\* and nothing is requested after the delete request.
C5_PhaseOrder ==
    /\ \A i, j \in 1..Len(log) : i < j => Rank(log[i].by) <= Rank(log[j].by)
    /\ \A i \in RequestsOfKind("delete") : i = Len(log)

\* a completed run in which every phase issued a request
C5_Witness ==
    /\ pc = "done"
    /\ \A by \in {"authenticate", "set_enabled", "set_name", "resolve_assignments",
                  "update_assignments", "block_while_busy", "delete"} :
          RequestsBy(by) # {}

\* C6: outside check mode and with block_while_busy requested, a delete request
\* is issued only once busy() has been observed and its last observation was
\* false; a busy wait that ended in an exception is followed by no delete
\* request.
C6_DeleteAfterIdle ==
    /\ (~params.check_mode /\ Truthy(params.block_while_busy)
            /\ RequestsOfKind("delete") # {})
        => /\ busyObs # <<>>
           /\ ~busyObs[Len(busyObs)]
           /\ \E i \in RequestsBy("block_while_busy") :
                 \A j \in RequestsOfKind("delete") : i < j
    /\ (error # None /\ Val(error).by = "busy_wait")
        => RequestsOfKind("delete") = {}

\* the agent was busy at first, then idle, and was deleted
C6_Witness ==
    /\ ~params.check_mode
    /\ Truthy(params.block_while_busy)
    /\ RequestsOfKind("delete") # {}
    /\ Len(busyObs) >= 2
    /\ busyObs[1]

\* C7 as stated: MissingUuid, AssignmentNotFound, TimeoutError and
\* ServerCommunicationError are all caught by main() and end the run as a
\* reported failure.
C7_AsStated ==
    (error # None /\ Val(error).type \in
        {"MissingUuid", "AssignmentNotFound", "TimeoutError",
         "ServerCommunicationError"})
        => pc = "failed"

\* C8: once a phase has raised, the run is over: it stands at its failure exit,
\* no request has been issued since the exception, and nothing is reported by
\* exit_json.  A bad status on the pending GET ends the run after that request.
C8_AbortOnError ==
    error # None
        => /\ pc \in {"failed", "crashed"}
           /\ Len(log) = Val(error).requests
           /\ result = None
           /\ (Val(error).by = "authenticate" /\ Val(error).requests = 1)
                 => log[1].kind = "pending"

\* the pending GET was answered with an unexpected status
C8_Witness ==
    /\ pc = "failed"
    /\ error # None
    /\ Val(error).type = "ServerCommunicationError"
    /\ Val(error).by = "authenticate"
    /\ Len(log) = 1
    /\ log[1].kind = "pending"

----------------------------------------------------------------------------
(* Properties of update_assignments() *)

\* update_assignments returned without an exception
UpdateCompleted == pc = NextPhase("update_assignments") /\ error = None

\* the <<type, id>> arguments of the requests of one kind
Issued(kind) == {log[i].arg : i \in RequestsOfKind(kind)}

\* C3 as stated: outside check mode, exactly one add_assignment is requested
\* for every id that is desired and not observed, exactly one
\* remove_assignment for every id that is observed and not desired, and none
\* for any other id.
C3_AsStated ==
    (UpdateCompleted /\ ~params.check_mode)
        => LET D == Val(resolved)
               O == FirstAssignments
               adds == {<<DictGet(D, k), k>> : k \in DictKeys(D) \ DictKeys(O)}
               removes == {<<DictGet(O, k), k>> : k \in DictKeys(O) \ DictKeys(D)}
           IN  /\ Issued("add_assignment") = adds
               /\ Cardinality(RequestsOfKind("add_assignment")) = Cardinality(adds)
               /\ Issued("remove_assignment") = removes
               /\ Cardinality(RequestsOfKind("remove_assignment"))
                      = Cardinality(removes)

\* C4 as stated: when update_assignments has returned, the tracked current
\* assignments equal the desired mapping.
C4_AsStated ==
    UpdateCompleted
        => DictEq(AssignmentsValue(state), Val(resolved))

----------------------------------------------------------------------------
(* Properties of retry() *)

SelfRecoverableFailure(out) ==
    out.kind = "raise" /\ out.value \in SelfRecoverableBambooAgentError

\* C9 as stated: with timeout 0 and interval 0 and a query that only raises
\* self-recoverable errors, the first failure ends the call with TimeoutError.
C9_AsStated ==
    (/\ pc \in {"retry", "raised"}
     /\ retry.timeout = Some(0)
     /\ retry.interval = 0
     /\ opTrace # <<>>
     /\ \A i \in 1..Len(opTrace) : SelfRecoverableFailure(opTrace[i]))
        => /\ Len(opTrace) = 1
           /\ pc = "raised"
           /\ Val(error).type = "TimeoutError"

\* C10: without a timeout retry() never raises TimeoutError; every
\* self-recoverable failure is followed by a sleep and another invocation, and
\* the call returns the value of the first invocation that succeeds.
C10_NoTimeout ==
    retry.timeout = None
        => /\ error # None => Val(error).type # "TimeoutError"
           /\ \A i \in 1..(Len(opTrace) - 1) : SelfRecoverableFailure(opTrace[i])
           /\ pc = "retry" => /\ \A i \in 1..Len(opTrace) :
                                    SelfRecoverableFailure(opTrace[i])
                              /\ retry.attempts = Len(opTrace)
           /\ pc = "returned"
                => /\ opTrace[Len(opTrace)].kind = "return"
                   /\ result = Some(opTrace[Len(opTrace)].value)
                   /\ retry.sleeps = Len(opTrace) - 1
           /\ pc = "raised"
                => /\ opTrace[Len(opTrace)].kind = "raise"
                   /\ ~SelfRecoverableFailure(opTrace[Len(opTrace)])
                   /\ Val(error).type = opTrace[Len(opTrace)].value

\* the third invocation succeeded after two self-recoverable failures
C10_Witness ==
    /\ retry.timeout = None
    /\ pc = "returned"
    /\ Len(opTrace) = 3
    /\ retry.sleeps = 2
    /\ result = Some(opTrace[3].value)

\* the errors of a query that retry() has no handler for
NotSelfRecoverable == {"ServerCommunicationError", "AssignmentNotFound", "URLError"}

\* C11: an error of the query that is not self-recoverable ends retry() at
\* once: it is the last invocation, no sleep follows it, and the caller gets
\* that very error; every invocation before it failed self-recoverably and was
\* followed by one sleep.
C11_OtherErrorsLeaveAtOnce ==
    \A i \in 1..Len(opTrace) :
        (opTrace[i].kind = "raise" /\ opTrace[i].value \in NotSelfRecoverable)
            => /\ i = Len(opTrace)
               /\ pc = "raised"
               /\ retry.phase = "raised"
               /\ retry.attempts = i
               /\ retry.sleeps = i - 1
               /\ error = Some([type |-> opTrace[i].value, by |-> "retry",
                                requests |-> 0])

\* a ServerCommunicationError at the second invocation, after one retried
\* failure, under a timeout that has not passed
C11_Witness ==
    /\ pc = "raised"
    /\ retry.timeout # None
    /\ Len(opTrace) = 2
    /\ opTrace[1].value = "AgentBusy"
    /\ opTrace[2].value = "ServerCommunicationError"
    /\ Val(error).type = "ServerCommunicationError"

----------------------------------------------------------------------------
(* The State object on its own, with the identity of the objects it holds:  *)
(* state.heap is the object store, initial and current hold references.     *)

ObjKeys == {"info", "authenticated"}
ObjValues == {"a", "b"}

\* State()
ObjNew ==
    [initial |-> [k \in Keys |-> None], current |-> [k \in Keys |-> None],
     heap |-> <<>>]

\* a new object with content v; its reference is Len(heap) + 1
ObjAlloc(s, v) == [s EXCEPT !.heap = Append(@, v)]

\* deepcopy(value): the state after the copy, and the reference of the copy
ObjAlias(s, ref) == [state |-> s, ref |-> ref]
ObjDeepcopy(s, ref) ==
    [state |-> ObjAlloc(s, s.heap[ref]), ref |-> Len(s.heap) + 1]

\* State.set(key, value)
ObjSet(s, key, ref) ==
    IF s.initial[key] = None
    THEN LET c == ObjDeepcopy(s, ref) IN
         [c.state EXCEPT !.initial[key] = Some(c.ref), !.current[key] = Some(ref)]
    ELSE [s EXCEPT !.current[key] = Some(ref)]

\* a default written to current alone
ObjGetCurrentOnly(s, key) ==
    IF s.current[key] = None
    THEN [ObjAlloc(s, "a") EXCEPT !.current[key] = Some(Len(s.heap) + 1)]
    ELSE s
\* State.__getitem__(key): an absent key is set to a new dict()
ObjGet(s, key) ==
    IF s.current[key] = None
    THEN ObjSet(ObjAlloc(s, "a"), key, Len(s.heap) + 1)
    ELSE s

\* the values behind the references
ObjView(s) ==
    LET view(slots) ==
            [k \in Keys |-> IF slots[k] = None THEN None
                            ELSE Some(s.heap[Val(slots[k])])]
    IN  [initial |-> view(s.initial), current |-> view(s.current)]

\* State.changed
ObjChanged(s) == StateChanged(ObjView(s))

ObjCall(op, key, s) == [op |-> op, key |-> key, changed |-> ObjChanged(s)]

InitState ==
    /\ params = [check_mode |-> FALSE, enabled |-> Unread, name |-> Unread,
                 assignments |-> Unread, block_while_busy |-> Unread,
                 deleted |-> Unread]
    /\ home = [cfg |-> None, tmp |-> None]
    /\ srv = [pending |-> {}, agent |-> None, assignments |-> <<>>,
              approved |-> FALSE]
    /\ pc = "state"
    /\ Constructed!1 /\ Constructed!2
    /\ state = ObjNew
    /\ Constructed!4 /\ Constructed!5 /\ Constructed!6 /\ Constructed!7
    /\ Constructed!8 /\ Constructed!9 /\ Constructed!10 /\ Constructed!11

ObjStep(op, key, s) ==
    /\ state' = s
    /\ opTrace' = Append(opTrace, ObjCall(op, key, s))
    /\ UNCHANGED <<params, home, srv, elapsed, pc, error, cache, resolved, iter,
                   retry, log, busyObs, result>>

\* state.set(key, value): value is a new object or one the caller got from the
\* state before
StateSetCall ==
    /\ pc = "state"
    /\ Len(opTrace) < MaxOps
    /\ \E key \in ObjKeys :
        \/ \E v \in ObjValues :
              ObjStep("set", key, ObjSet(ObjAlloc(state, v), key, Len(state.heap) + 1))
        \/ \E k \in ObjKeys :
              /\ state.current[k] # None
              /\ ObjStep("set", key, ObjSet(state, key, Val(state.current[k])))

\* state[key]
StateGetCall ==
    /\ pc = "state"
    /\ Len(opTrace) < MaxOps
    /\ \E key \in ObjKeys : ObjStep("get", key, ObjGet(state, key))

\* state[key][...] = ...: the object state[key] returns is changed in place
StateMutateCall ==
    /\ pc = "state"
    /\ Len(opTrace) < MaxOps
    /\ \E key \in ObjKeys :
        LET s == ObjGet(state, key)
            ref == Val(s.current[key])
        IN  \E v \in ObjValues \ {s.heap[ref]} :
               ObjStep("mutate", key, [s EXCEPT !.heap[ref] = v])

NextState ==
    \/ StateSetCall
    \/ StateGetCall
    \/ StateMutateCall

SpecState == InitState /\ [][NextState]_vars

\* C12: once a key has an initial value, no set, get or in-place change of a
\* value obtained from the state alters it: its reference and the object behind
\* it stay as they are; the initial value of a key is the value of its first
\* set (or the empty dict of its first get).
C12_InitialFixed ==
    [][\A k \in Keys :
          /\ state.initial[k] # None
                => /\ state'.initial[k] = state.initial[k]
                   /\ state'.heap[Val(state.initial[k])]
                          = state.heap[Val(state.initial[k])]
          /\ (state.initial[k] = None /\ state'.initial[k] # None)
                => /\ opTrace'[Len(opTrace')].key = k
                   /\ opTrace'[Len(opTrace')].op # "set"
                          => ObjView(state').initial[k] = Some("a")
                   /\ opTrace'[Len(opTrace')].op = "set"
                          => ObjView(state').initial[k] = ObjView(state').current[k]
      ]_vars

\* a key whose value was changed in place and then set again, and whose
\* initial value differs from its current one
C12_Witness ==
    \E k \in ObjKeys :
        /\ pc = "state"
        /\ state.initial[k] # None
        /\ ObjView(state).initial[k] # ObjView(state).current[k]
        /\ \E i, j \in 1..Len(opTrace) :
              /\ i < j
              /\ opTrace[i] = [op |-> "mutate", key |-> k, changed |-> TRUE]
              /\ opTrace[j].op = "set" /\ opTrace[j].key = k

\* C13: changed is true exactly when some key's current value differs from
\* its initial value, compared by value; the first call on a key (a set or a
\* get) leaves changed as it was, so it is false right after the first set.
C13_ChangedIffDiffers ==
    pc = "state"
        => /\ ObjChanged(state)
                <=> \E k \in Keys :
                       /\ state.initial[k] # None
                       /\ state.heap[Val(state.initial[k])]
                              # state.heap[Val(state.current[k])]
           /\ \A k \in Keys : (state.initial[k] = None) <=> (state.current[k] = None)
           /\ \A i \in 1..Len(opTrace) :
                 (/\ opTrace[i].op \in {"set", "get"}
                  /\ \A j \in 1..(i - 1) : opTrace[j].key # opTrace[i].key)
                    => opTrace[i].changed = (i > 1 /\ opTrace[i - 1].changed)
           /\ opTrace # <<>> => opTrace[Len(opTrace)].changed = ObjChanged(state)

\* a key set, set to another value, and set back to a value equal to the first
C13_Witness ==
    /\ pc = "state"
    /\ Len(opTrace) = 3
    /\ opTrace[1] = [op |-> "set", key |-> "info", changed |-> FALSE]
    /\ opTrace[2] = [op |-> "set", key |-> "info", changed |-> TRUE]
    /\ opTrace[3] = [op |-> "set", key |-> "info", changed |-> FALSE]
    /\ state.current["info"] # state.initial["info"]

----------------------------------------------------------------------------
(* request(request, allow_redirect) on its own, for any method and response *)

Methods == {"GET", "POST", "PUT", "DELETE"}

AllStatuses == {200, 201, 202, 204, 301, 302, 303, 304, 400, 401, 403, 404, 500, 503}

AllOutcomes ==
    [ok : {TRUE}, status : AllStatuses] \cup {[ok |-> FALSE, status |-> 0]}

InitRequest ==
    /\ params = [check_mode |-> FALSE, enabled |-> Unread, name |-> Unread,
                 assignments |-> Unread, block_while_busy |-> Unread,
                 deleted |-> Unread]
    /\ home = [cfg |-> None, tmp |-> None]
    /\ srv = [pending |-> {}, agent |-> None, assignments |-> <<>>,
              approved |-> FALSE]
    /\ pc = "request"
    /\ Constructed!1 /\ Constructed!2 /\ Constructed!3 /\ Constructed!4
    /\ Constructed!5 /\ Constructed!6 /\ Constructed!7 /\ Constructed!8
    /\ Constructed!9
    /\ \E method \in Methods, allow_redirect \in BOOLEAN :
        opTrace = << [kind |-> "call", value |-> <<method, allow_redirect>>] >>
    /\ Constructed!11

\* agent.request(request, allow_redirect): the handler is called once, then the
\* status code decides between return and raise
RequestCall ==
    /\ pc = "request"
    /\ \E o \in AllOutcomes :
        LET method == opTrace[1].value[1]
            allow_redirect == opTrace[1].value[2]
        IN  /\ log' = Append(log, Req(method, "request", "request", None))
            /\ opTrace' = Append(opTrace, [kind |-> "response", value |-> o])
            /\ IF RequestOk(method, o, allow_redirect)
               THEN /\ pc' = "returned"
                    /\ result' = Some(o)
                    /\ error' = error
               ELSE /\ pc' = "raised"
                    /\ error' = Some([type |-> RequestError(o), by |-> pc,
                                      requests |-> 1])
                    /\ result' = result
    /\ UNCHANGED <<params, home, srv, elapsed, state, cache, resolved, iter, retry,
                   busyObs>>

NextRequest ==
    \/ RequestCall

SpecRequest == InitRequest /\ [][NextRequest]_vars

\* C14: request() returns the response exactly when its status is 204 for a
\* PUT or DELETE, 200 for a GET or POST, or 302 with allow_redirect set; for
\* any other status it raises ServerCommunicationError.
C14_StatusDecides ==
    (pc \in {"returned", "raised"} /\ opTrace[2].value.ok)
        => LET method == opTrace[1].value[1]
               allow_redirect == opTrace[1].value[2]
               status == opTrace[2].value.status
               valid == \/ method \in {"PUT", "DELETE"} /\ status = 204
                        \/ method \in {"GET", "POST"} /\ status = 200
                        \/ status = 302 /\ allow_redirect
           IN  /\ valid <=> pc = "returned"
               /\ pc = "returned" => result = Some(opTrace[2].value)
               /\ pc = "raised" =>
                     Val(error).type = "ServerCommunicationError"
               /\ Len(log) = 1

\* a PUT answered with 200 raised, as did a POST answered with 302 without
\* allow_redirect
C14_Witness ==
    /\ pc = "raised"
    /\ Val(error).type = "ServerCommunicationError"
    /\ \/ opTrace[1].value = <<"PUT", FALSE>> /\ opTrace[2].value.status = 200
       \/ opTrace[1].value = <<"POST", FALSE>> /\ opTrace[2].value.status = 302

----------------------------------------------------------------------------
(* main() run twice on an authenticated agent with the same desired state:  *)
(* first in check mode, then for real, without block_while_busy             *)

InitTwice ==
    /\ params = [check_mode |-> TRUE, enabled |-> Unread, name |-> Unread,
                 assignments |-> Unread, block_while_busy |-> None,
                 deleted |-> Unread]
    /\ home = [cfg |-> Some([uuid |-> "U", id |-> Some(1234)]), tmp |-> None]
    /\ \E r \in AgentRecords, sa \in ServerAssignments :
        srv = [pending |-> {}, agent |-> Some(r), assignments |-> sa,
               approved |-> FALSE]
    /\ pc = "authenticate"
    /\ Constructed

\* the check-mode run has reported; the module is run again without check mode
Rerun ==
    /\ pc = "done"
    /\ params.check_mode
    /\ opTrace = <<>>
    /\ opTrace' = <<Val(result)>>
    /\ params' = [params EXCEPT !.check_mode = FALSE]
    /\ pc' = "authenticate"
    /\ error' = None
    /\ state' = StateNew
    /\ cache' = CacheNew
    /\ resolved' = None
    /\ iter' = 1
    /\ log' = <<>>
    /\ result' = None
    /\ UNCHANGED <<home, srv, elapsed, retry, busyObs>>

NextTwice ==
    \/ AgentAuthenticated
    \/ CtlSetEnabled
    \/ AgentEnable
    \/ CtlSetName
    \/ AgentSetName
    \/ AgentResolveAssignments
    \/ CtlUpdateAssignments
    \/ CtlAddAssignments
    \/ CtlRemoveAssignments
    \/ CtlBlockWhileBusy
    \/ AgentDelete
    \/ ExitJson
    \/ Rerun

SpecTwice == InitTwice /\ [][NextTwice]_vars

\* C15: for an authenticated agent without block_while_busy, the real run
\* reports what the check-mode run on the same server and desired state
\* reported: the same changed flag and the same tracked authenticated flag,
\* agent record (name, enabled), assignments and deleted flag.
C15_CheckModeReportsTheSame ==
    (pc = "done" /\ ~params.check_mode /\ opTrace # <<>>)
        => LET check == opTrace[1]
               real == Val(result)
           IN  /\ real.changed = check.changed
               /\ real.authenticated = check.authenticated
               /\ real.info = check.info
               /\ DictEq(real.assignments, check.assignments)
               /\ real.deleted = check.deleted

\* both runs changed the enabled flag, the name and the assignments and
\* deleted the agent; only the real run issued the requests
C15_Witness ==
    /\ pc = "done"
    /\ ~params.check_mode
    /\ opTrace # <<>>
    /\ opTrace[1].changed
    /\ opTrace[1].deleted
    /\ FirstInfo.enabled # Val(opTrace[1].info).enabled
    /\ FirstInfo.name # Val(opTrace[1].info).name
    /\ ~DictEq(FirstAssignments, opTrace[1].assignments)
    /\ Cardinality(MutatingRequests) >= 5

----------------------------------------------------------------------------
(* Properties of the authenticate phase *)

\* what is on disk, read off the files themselves
UuidOnDisk == home.cfg # None \/ home.tmp # None
DiskUuid == IF home.cfg # None THEN Val(home.cfg).uuid ELSE Val(home.tmp)
IdOnDisk == home.cfg # None /\ Val(home.cfg).id # None
Listed == IdOnDisk /\ srv.agent # None /\ Val(srv.agent).id = Val(Val(home.cfg).id)

\* C16: authenticated() without a uuid on disk returns false without a
\* request; with the uuid in the pending list it returns false after the one
\* pending GET; with the uuid not in the pending list it returns what
\* available() returns (false without a further request when there is no id on
\* disk, else after one agent-list GET whether the agent is listed).  The
\* result is stored under the key authenticated.
C16_Authenticated ==
    /\ pc = "agent_authenticate"
        => /\ state.current["authenticated"] = Some(FALSE)
           /\ state.initial["authenticated"] = Some(FALSE)
           /\ IF ~UuidOnDisk THEN log = <<>>
              ELSE /\ log # <<>>
                   /\ log[1] = Req("GET", "pending", "authenticate", None)
                   /\ IF DiskUuid \in srv.pending \/ ~IdOnDisk
                      THEN Len(log) = 1
                      ELSE /\ Len(log) = 2
                           /\ log[2] = Req("GET", "agents", "authenticate", None)
                           /\ ~Listed
    /\ (pc = "set_enabled" /\ state.initial["authenticated"] = Some(TRUE))
        => /\ state.current["authenticated"] = Some(TRUE)
           /\ UuidOnDisk
           /\ DiskUuid \notin srv.pending
           /\ Listed
           /\ log = << Req("GET", "pending", "authenticate", None),
                       Req("GET", "agents", "authenticate", None) >>

\* an agent with a configuration file and an id whose uuid is pending again:
\* false after the pending GET alone
C16_Witness ==
    /\ pc = "agent_authenticate"
    /\ IdOnDisk
    /\ srv.agent # None
    /\ DiskUuid \in srv.pending
    /\ Len(log) = 1
    /\ state.current["authenticated"] = Some(FALSE)

\* a step of the availability wait in which available() was called
AvailablePolled == pc = "auth_wait" /\ retry.phase = "query" /\ retry' # retry

\* C17: available() without an id on disk returns false without a request;
\* with an id it issues exactly one agent-list GET, whatever is cached, and
\* returns true exactly when the list holds a record with that id.
C17_Available ==
    [][AvailablePolled =>
          IF ~IdOnDisk
          THEN /\ log' = log
               /\ pc' # NextPhase("authenticate")
          ELSE /\ log' = Append(log, Req("GET", "agents", "authenticate", None))
               /\ pc' = NextPhase("authenticate") => Listed
               /\ pc' = "auth_wait" => ~Listed
               /\ (error' # None /\ Val(error').type = "TimeoutError") => ~Listed
               /\ Listed => \/ pc' = NextPhase("authenticate")
                            \/ /\ error' # None
                               /\ Val(error').type
                                     \in {"ServerCommunicationError", "URLError"}
      ]_vars

\* the wait polled an agent with an id on disk at least twice, each time with
\* a GET, and ended when the agent was listed
C17_Witness ==
    /\ pc = NextPhase("authenticate")
    /\ state.initial["authenticated"] = Some(FALSE)
    /\ Listed
    /\ \E i \in RequestsOfKind("authentication") :
          Cardinality({j \in RequestsOfKind("agents") : j > i}) >= 2

\* the requests of the authenticate phase, call by call, outside check mode
AuthCalls ==
    /\ Cardinality(RequestsOfKind("authentication")) <= 1
    /\ state.initial["authenticated"] = Some(TRUE)
        => /\ RequestsOfKind("authentication") = {}
           /\ RequestsBy("authenticate") \subseteq {1, 2}
           /\ pc \notin {"agent_authenticate", "auth_wait"}
    /\ pc = "auth_wait"
        => /\ ~params.check_mode
           /\ state.initial["authenticated"] = Some(FALSE)
           /\ state.current["authenticated"] = Some(TRUE)
           /\ \E i \in RequestsOfKind("authentication") :
                 /\ \A j \in 1..(i - 1) : log[j].kind \in {"pending", "agents"}
                 /\ \A j \in (i + 1)..Len(log) : log[j].kind = "agents"
                 /\ Len(log) - i <= retry.attempts

\* one poll of the wait: it ends the wait when the agent is available, raises
\* TimeoutError when it is not and the deadline has passed, and is followed by
\* a sleep and another poll otherwise; the wait ends in no other way
AuthPollStep ==
    /\ (AvailablePolled /\ Listed /\ error' = None)
        => pc' = NextPhase("authenticate")
    /\ (AvailablePolled /\ ~Listed
            /\ (error' # None => Val(error').type = "TimeoutError"))
        => IF elapsed > Val(retry.timeout)
           THEN /\ error' # None
                /\ pc' \in {"failed", "crashed"}
           ELSE /\ error' = None
                /\ pc' = "auth_wait"
                /\ retry'.phase = "sleep"
                /\ retry'.attempts = retry.attempts + 1
    /\ (pc = "auth_wait" /\ pc' # "auth_wait") => AvailablePolled

C19_CheckModeNeverPolls ==
    params.check_mode
        => /\ pc \notin {"auth_wait", "busy_wait"}
           /\ retry = RetryIdle
           /\ elapsed = 0
           /\ busyObs = <<>>
           /\ RequestsBy("block_while_busy") = {}
           /\ Cardinality(RequestsOfKind("agents") \cap RequestsBy("authenticate")) <= 1
           /\ error # None => Val(error).type # "TimeoutError"

\* a check-mode run on a pending agent that is busy, with block_while_busy
\* requested, ran to its end
C19_Witness ==
    /\ params.check_mode
    /\ pc = "done"
    /\ state.initial["authenticated"] = Some(FALSE)
    /\ state.current["authenticated"] = Some(TRUE)
    /\ Truthy(params.block_while_busy)
    /\ srv.agent # None
    /\ Val(srv.agent).busy

----------------------------------------------------------------------------
(* Properties of set_enabled and set_name *)

\* the tracked agent record
Tracked(st) == Val(InfoValue(st))

\* the steps of one of the two phases: the controller's read and test at
\* position phase, the agent's mutation at position mutation
SetStep(phase, field, mutation, d, kind) ==
    /\ (pc = phase /\ d = None)
        => /\ log' = log
           /\ state' = state
           /\ pc' = NextPhase(phase)
    /\ (pc = phase /\ d # None /\ error' = None)
        => /\ \/ log' = log
              \/ log' = Append(log, Req("GET", "agents", phase, None))
           /\ IF Val(d) = Tracked(state')[field]
              THEN pc' = NextPhase(phase)
              ELSE pc' = mutation
    /\ (pc = mutation /\ error' = None)
        => /\ pc' = NextPhase(phase)
           /\ Tracked(state')[field] = Val(d)
           /\ StateChanged(state')
           /\ log' = IF params.check_mode THEN log
                     ELSE Append(log, Req("POST", kind, phase, None))

\* C20: set_enabled(d) and set_name(d) make no agent call when d is None, only
\* the read when d equals the observed value, and otherwise exactly one
\* mutation - enable for true, disable for false, set_name for a name - after
\* which the tracked value is d and changed is true (in check mode the
\* mutation is applied to the tracked state only).
C20_SetEnabledSetName ==
    /\ [](/\ Cardinality(RequestsBy("set_enabled") \cap MutatingRequests) <= 1
          /\ Cardinality(RequestsBy("set_name") \cap MutatingRequests) <= 1)
    /\ [][/\ SetStep("set_enabled", "enabled", "agent_enable", params'.enabled,
                     IF params'.enabled = Some(TRUE) THEN "enable" ELSE "disable")
          /\ SetStep("set_name", "name", "agent_set_name", params'.name, "set_name")
         ]_vars

\* an enabled agent was disabled and renamed by one request each
C20_Witness ==
    /\ pc = "done"
    /\ ~params.check_mode
    /\ params.enabled = Some(FALSE)
    /\ params.name = Some("a")
    /\ Val(result).changed
    /\ Val(Val(result).info).enabled = FALSE
    /\ Val(Val(result).info).name = "a"
    /\ Cardinality(RequestsOfKind("disable")) = 1
    /\ Cardinality(RequestsOfKind("set_name")) = 1
    /\ RequestsOfKind("enable") = {}

----------------------------------------------------------------------------
(* resolve_assignments(assignments) on its own, for every list of desired
   assignments of up to MaxList pairs *)

AssignmentKeys == {"PL", "PM", "PR", "XX"}
AssignmentPairs == [type : {"plan", "project"}, key : AssignmentKeys]
AssignmentLists == UNION {[1..n -> AssignmentPairs] : n \in 0..MaxList}

InitResolve ==
    /\ \E a \in {None} \cup {Some(l) : l \in AssignmentLists} :
        params = [check_mode |-> FALSE, enabled |-> None, name |-> None,
                  assignments |-> a, block_while_busy |-> None,
                  deleted |-> None]
    /\ home = [cfg |-> Some([uuid |-> "U", id |-> Some(1234)]), tmp |-> None]
    /\ srv = [pending |-> {}, agent |-> None, assignments |-> <<>>,
              approved |-> FALSE]
    /\ pc = "resolve"
    /\ Constructed

NextResolve == AgentResolveAssignments

SpecResolve == InitResolve /\ [][NextResolve]_vars

\* the search results of a pair's own type hold the pair's key
Matches(a) ==
    \E r \in 1..Len(SearchResults(Upper(a.type))) :
        SearchResults(Upper(a.type))[r][1] = a.key
MatchId(a) ==
    LET rs == SearchResults(Upper(a.type))
    IN  rs[CHOOSE r \in 1..Len(rs) : rs[r][1] = a.key][2]

\* C21: resolve_assignments() searches each entity type at most once, in the
\* order in which the types first appear in the list, however many pairs share
\* a type; handed None it returns None and issues no request.
C21_OneSearchPerType ==
    /\ params.assignments = None => log = <<>> /\ resolved = None
    /\ params.assignments # None =>
        LET list == Val(params.assignments)
        IN  /\ \A i \in 1..Len(log) :
                /\ log[i].method = "GET" /\ log[i].kind = "search"
                /\ \A j \in 1..(i - 1) : log[j].arg # log[i].arg
                /\ \E p \in 1..Len(list) :
                    /\ log[i].arg = <<Upper(list[p].type)>>
                    /\ \A q \in 1..(p - 1) : \E j \in 1..(i - 1) :
                        log[j].arg = <<Upper(list[q].type)>>
            /\ pc = "update_assignments" =>
                \A p \in 1..Len(list) : \E i \in 1..Len(log) :
                    log[i].arg = <<Upper(list[p].type)>>

C21_Witness ==
    /\ pc = "update_assignments"
    /\ params.assignments =
        Some(<< [type |-> "project", key |-> "PR"], [type |-> "plan", key |-> "PL"],
                [type |-> "plan", key |-> "PM"] >>)
    /\ Len(log) = 2
    /\ log[1].arg = <<"PROJECT">>
    /\ log[2].arg = <<"PLAN">>

\* C22: resolve_assignments() raises AssignmentNotFound at the first pair whose
\* key is not among the search results of the pair's own type (a key found only
\* under the other type does not count) and then hands no mapping to its
\* caller; otherwise it returns the mapping from each pair's entity id to the
\* pair's upper-cased type.
C22_ResolveOrFail ==
    params.assignments # None =>
        LET list == Val(params.assignments)
        IN  /\ (error # None /\ Val(error).type = "AssignmentNotFound") =>
                /\ pc = "failed"
                /\ iter \in 1..Len(list)
                /\ ~Matches(list[iter])
                /\ \A q \in 1..(iter - 1) : Matches(list[q])
                /\ \A i \in 1..Len(log) : \E p \in 1..iter :
                    log[i].arg = <<Upper(list[p].type)>>
            /\ pc = "update_assignments" =>
                /\ error = None
                /\ \A p \in 1..Len(list) : Matches(list[p])
                /\ resolved # None
                /\ DictKeys(Val(resolved)) =
                    {MatchId(list[p]) : p \in {q \in 1..Len(list) : Matches(list[q])}}
                /\ \A p \in 1..Len(list) :
                    Matches(list[p]) /\ DictHas(Val(resolved), MatchId(list[p])) =>
                        DictGet(Val(resolved), MatchId(list[p])) = Upper(list[p].type)
            /\ (pc = "failed" /\ Val(error).type
                    \notin {"ServerCommunicationError", "URLError"}) =>
                \E p \in 1..Len(list) : ~Matches(list[p])

C22_Witness ==
    /\ pc = "failed"
    /\ error # None
    /\ Val(error).type = "AssignmentNotFound"
    /\ params.assignments =
        Some(<< [type |-> "plan", key |-> "PL"], [type |-> "plan", key |-> "PR"],
                [type |-> "project", key |-> "PR"] >>)
    /\ iter = 2
    /\ Len(log) = 1

----------------------------------------------------------------------------
(* uuid() and id() on their own, for every content of the agent's home
   directory with two different uuids *)

Uuids == {"A", "B"}
ConfigFiles == [uuid : Uuids, id : {None, Some(1234)}]
Homes == [cfg : {None} \cup {Some(c) : c \in ConfigFiles},
          tmp : {None} \cup {Some(u) : u \in Uuids}]

InitIdentity ==
    /\ params = [check_mode |-> FALSE, enabled |-> None, name |-> None,
                 assignments |-> None, block_while_busy |-> None,
                 deleted |-> None]
    /\ home \in Homes
    /\ srv = [pending |-> {}, agent |-> None, assignments |-> <<>>,
              approved |-> FALSE]
    /\ pc = "identity"
    /\ Constructed

\* agent.uuid()
UuidCall ==
    /\ pc = "identity"
    /\ Len(opTrace) < MaxOps
    /\ opTrace' = Append(opTrace, [kind |-> "uuid", value |-> Uuid(home)])
    /\ UNCHANGED <<params, home, srv, elapsed, pc, error, state, cache, resolved,
                   iter, retry, log, busyObs, result>>

\* agent.id()
IdCall ==
    /\ pc = "identity"
    /\ Len(opTrace) < MaxOps
    /\ opTrace' = Append(opTrace, [kind |-> "id", value |-> Id(home)])
    /\ UNCHANGED <<params, home, srv, elapsed, pc, error, state, cache, resolved,
                   iter, retry, log, busyObs, result>>

NextIdentity ==
    \/ UuidCall
    \/ IdCall

SpecIdentity == InitIdentity /\ [][NextIdentity]_vars

\* C23: uuid() returns the uuid of bamboo-agent.cfg.xml whenever that file
\* exists, whatever uuid-temp.properties holds, the uuid of the temp file only
\* when there is no config file, and None when there is neither; id() comes
\* from the config file only, and no request is issued by either.
C23_IdentityPrecedence ==
    /\ log = <<>>
    /\ \A i \in 1..Len(opTrace) :
        /\ opTrace[i].kind = "uuid" =>
            /\ home.cfg # None => opTrace[i].value = Some(Val(home.cfg).uuid)
            /\ home.cfg = None /\ home.tmp # None => opTrace[i].value = home.tmp
            /\ home.cfg = None /\ home.tmp = None => opTrace[i].value = None
        /\ opTrace[i].kind = "id" =>
            /\ home.cfg # None => opTrace[i].value = Val(home.cfg).id
            /\ home.cfg = None => opTrace[i].value = None

C23_Witness ==
    /\ home = [cfg |-> Some([uuid |-> "B", id |-> Some(1234)]), tmp |-> Some("A")]
    /\ Len(opTrace) = 2
    /\ opTrace[1].kind = "uuid" /\ opTrace[1].value = Some("B")
    /\ opTrace[2].kind = "id" /\ opTrace[2].value = Some(1234)

----------------------------------------------------------------------------
(* agent.authenticate() and change() *)

\* the call of agent.authenticate(): the step that leaves "agent_authenticate"
AuthenticateStep ==
    (pc = "agent_authenticate" /\ pc' # pc) =>
        IF ~UuidOnDisk
        THEN /\ error' # None
             /\ Val(error').type = "MissingUuid"
             /\ log' = log
             /\ state' = state
             /\ srv' = srv
        ELSE /\ ~params.check_mode =>
                 log' = Append(log, Req("PUT", "authentication", "authenticate",
                                        Some(DiskUuid)))
             /\ error' = None =>
                 /\ state'.current["authenticated"] = Some(TRUE)
                 /\ state'.initial = state.initial
                 /\ \A k \in Keys \ {"authenticated"} :
                     state'.current[k] = state.current[k]
             /\ error' # None =>
                 /\ Val(error').type \in {"ServerCommunicationError", "URLError"}
                 /\ state' = state

FailedChangeStep ==
    (/\ Len(log') = Len(log) + 1
     /\ log'[Len(log')].method \in Mutating
     /\ error' # None)
        => /\ ~params.check_mode
           /\ Val(error').type \in {"ServerCommunicationError", "URLError"}
           /\ Val(error').requests = Len(log')
           /\ state' = state
           /\ srv' = srv

\* C29: outside check mode a mutating operation sends its request before it
\* touches the tracked state: when the request ends in ServerCommunicationError
\* or a transport error, the state update is not applied and initial and
\* current are exactly what they were before the call.
C29_RequestBeforeState == [][FailedChangeStep]_vars

C29_Witness ==
    /\ pc = "failed"
    /\ error # None
    /\ Val(error).by = "agent_enable"
    /\ Val(error).type = "ServerCommunicationError"
    /\ Len(log) = Val(error).requests
    /\ log # <<>>
    /\ log[Len(log)].kind = "disable"
    /\ state.current["info"] = state.initial["info"]
    /\ Tracked(state)["enabled"] = TRUE

----------------------------------------------------------------------------
(* Failures of a run *)

\* C25: while there is no uuid on disk in the Authenticate phase the
\* controller keeps retrying, so a run that fails there for want of a uuid
\* fails with the TimeoutError of the authentication timeout, never at the
\* first attempt.
C25_AsStated ==
    (/\ error # None
     /\ Val(error).by = "agent_authenticate"
     /\ ~UuidOnDisk)
        => Val(error).type = "TimeoutError"

\* module.fail_json(msg=str(error)): the keyword arguments of the failure report
FailJson(e) == [msg |-> e]

\* C28: the failure report of a run stopped by a fatal error carries, next to
\* the message, the tracked state accumulated before the failure.
C28_AsStated ==
    (/\ pc = "failed"
     /\ error # None
     /\ state.current["authenticated"] # None)
        => /\ "msg" \in DOMAIN FailJson(Val(error).type)
           /\ \E k \in {"changed", "authenticated", "assignments", "deleted", "diff"} :
               k \in DOMAIN FailJson(Val(error).type)

----------------------------------------------------------------------------
(* Registration of a new agent *)

\* a completed real run that found the agent not authenticated, was asked for
\* nothing else, and whose first fetch of the agent list held the agent's record
NewAgentRun ==
    /\ pc = "done"
    /\ ~params.check_mode
    /\ state.initial["authenticated"] = Some(FALSE)
    /\ params.enabled = None
    /\ params.name = None
    /\ params.assignments = None
    /\ params.block_while_busy = None
    /\ ~Truthy(params.deleted)
    /\ state.initial["info"] \notin {None, Some(None)}

\* C26: for a new agent (uuid pending, the config file with the id written
\* once the approval is accepted) the run issues exactly three requests, in
\* the order pending GET, authentication PUT, agent-list GET, and reports
\* changed = true, authenticated = true and the id and enabled flag of the
\* fetched record.
C26_NewAgentRegistration ==
    NewAgentRun =>
        /\ Len(log) = 3
        /\ log[1] = Req("GET", "pending", "authenticate", None)
        /\ log[2] = Req("PUT", "authentication", "authenticate", Some(DiskUuid))
        /\ log[3] = Req("GET", "agents", "authenticate", None)
        /\ result # None
        /\ Val(result).changed
        /\ Val(result).authenticated = TRUE
        /\ Val(result).info # None
        /\ Val(Val(result).info).id = Val(Val(home.cfg).id)
        /\ srv.agent # None
        /\ Val(Val(result).info).enabled = Val(srv.agent).enabled

\* the agent had only its temporary uuid file when the run began
C26_Witness ==
    /\ NewAgentRun
    /\ home.tmp # None
    /\ home.cfg # None
    /\ Len(log) = 3
    /\ Val(result).changed
    /\ Val(Val(result).info).id = 1234
    /\ Val(Val(result).info).enabled

----------------------------------------------------------------------------
(* The busy wait *)

\* one observation of the busy flag by the retry loop of block_while_busy()
BusyStep ==
    /\ busyObs' = Append(busyObs, FALSE)
        => /\ pc = "busy_wait"
           /\ pc' = NextPhase("block_while_busy")
           /\ error' = None
           /\ log' = Append(log, Req("GET", "agents", "block_while_busy", None))
    /\ busyObs' = Append(busyObs, TRUE)
        => /\ pc = "busy_wait"
           /\ log' = Append(log, Req("GET", "agents", "block_while_busy", None))
           /\ IF retry.timeout # None /\ elapsed > Val(retry.timeout)
              THEN /\ error' # None
                   /\ Val(error').type = "TimeoutError"
                   /\ pc' = "crashed"
              ELSE /\ error' = None
                   /\ pc' = pc
                   /\ retry'.phase = "sleep"

\* C27: outside check mode block_while_busy() observes the busy flag until it
\* is false: an agent busy at the first k observations and idle at the next
\* is observed exactly k + 1 times, by one agent-list GET each, and the wait
\* returns without a mutating request; a busy observation past a set
\* busy_timeout raises TimeoutError.
C27_BlockWhileBusy ==
    /\ [](/\ \A i \in 1..(Len(busyObs) - 1) : busyObs[i]
          /\ busyObs # <<>> => ~params.check_mode
          /\ RequestsBy("block_while_busy") \cap MutatingRequests = {}
          /\ (error = None \/ Val(error).by # "busy_wait")
                => Cardinality(RequestsBy("block_while_busy")) = Len(busyObs)
          /\ (busyObs # <<>> /\ pc # "busy_wait"
                /\ (error = None \/ Val(error).by # "busy_wait"))
                => ~busyObs[Len(busyObs)])
    /\ [][BusyStep]_vars

\* busy twice, then idle: three observations, and the run went on
C27_Witness ==
    /\ pc = NextPhase("block_while_busy")
    /\ Len(busyObs) = 3
    /\ busyObs[1] /\ busyObs[2] /\ ~busyObs[3]
    /\ Cardinality(RequestsBy("block_while_busy")) = 3
    /\ error = None

----------------------------------------------------------------------------
(* info(), name(), enabled() and busy() on their own, called in any order on
   an agent the server lists, while the agent picks up and finishes jobs *)

InitCache ==
    /\ params = [check_mode |-> FALSE, enabled |-> None, name |-> None,
                 assignments |-> None, block_while_busy |-> None,
                 deleted |-> None]
    /\ home = [cfg |-> Some([uuid |-> "U", id |-> Some(1234)]), tmp |-> None]
    /\ \E r \in AgentRecords :
        srv = [pending |-> {}, agent |-> Some(r), assignments |-> <<>>,
               approved |-> TRUE]
    /\ pc = "agent"
    /\ Constructed

\* info() (field "info"), name() and enabled(): info() and, for the latter two,
\* the field of the record it returns
AgentRead ==
    /\ pc = "agent"
    /\ Len(opTrace) < MaxOps
    /\ \E field \in {"info", "name", "enabled"}, o \in Outcomes :
        LET r == InfoCall(o, log, state, cache, field) IN
        IF r.err # None
        THEN Raise(Val(r.err), r.log, r.state, r.cache) /\ opTrace' = opTrace
        ELSE /\ Goto(pc, r.log, r.state, r.cache)
             /\ opTrace' = Append(opTrace,
                    [kind |-> field,
                     value |-> IF field = "info" THEN InfoValue(r.state)
                               ELSE Val(InfoValue(r.state))[field]])
    /\ UNCHANGED <<params, home, srv, elapsed, resolved, iter, retry, busyObs,
                   result>>

\* busy(): info.cache_clear(), then info()["busy"]
AgentBusy ==
    /\ pc = "agent"
    /\ Len(opTrace) < MaxOps
    /\ \E o \in Outcomes :
        LET r == InfoCall(o, log, state, CacheClear(cache), "busy") IN
        IF r.err # None
        THEN Raise(Val(r.err), r.log, r.state, r.cache) /\ opTrace' = opTrace
        ELSE /\ Goto(pc, r.log, r.state, r.cache)
             /\ opTrace' = Append(opTrace,
                    [kind |-> "busy", value |-> Val(InfoValue(r.state)).busy])
    /\ UNCHANGED <<params, home, srv, elapsed, resolved, iter, retry, busyObs,
                   result>>

\* the agent picks up a job, or finishes the one it has
EnvAgentWorks ==
    /\ pc = "agent"
    /\ srv' = SrvAgentSet(srv, "busy", ~Val(srv.agent).busy)
    /\ UNCHANGED <<params, home, elapsed, pc, error, state, cache, resolved, iter,
                   retry, log, busyObs, opTrace, result>>

NextCache ==
    \/ AgentRead
    \/ AgentBusy
    \/ EnvAgentWorks

SpecCache == InitCache /\ [][NextCache]_vars

BusyCalls == {i \in 1..Len(opTrace) : opTrace[i].kind = "busy"}

\* a call of busy() that returned
BusyCallStep ==
    (Len(opTrace') = Len(opTrace) + 1 /\ opTrace'[Len(opTrace')].kind = "busy")
        => /\ log' = Append(log, Req("GET", "agents", "busy", None))
           /\ opTrace'[Len(opTrace')].value = Val(srv.agent).busy

\* a call of info(), name() or enabled() that returned
ReadCallStep ==
    (Len(opTrace') = Len(opTrace) + 1 /\ opTrace'[Len(opTrace')].kind # "busy")
        => IF opTrace = <<>>
           THEN log' = Append(log, Req("GET", "agents",
                                       opTrace'[Len(opTrace')].kind, None))
           ELSE log' = log

\* C30: the reads info(), name() and enabled() made between two invalidations
\* of the cache issue at most one agent-list GET in total, however many they
\* are; every busy() invalidates the cache and issues exactly one fresh GET, so
\* that it returns the busy flag the server holds at that moment.
C30_InfoCaching ==
    /\ [](error = None =>
            Len(log) = Cardinality(BusyCalls)
                       + (IF opTrace # <<>> /\ opTrace[1].kind # "busy"
                          THEN 1 ELSE 0))
    /\ [][BusyCallStep /\ ReadCallStep]_vars

\* two reads share one GET; two busy() calls in a row return different values
C30_Witness ==
    /\ Len(opTrace) = 4
    /\ opTrace[1].kind = "name"
    /\ opTrace[2].kind = "enabled"
    /\ opTrace[3].kind = "busy"
    /\ opTrace[4].kind = "busy"
    /\ opTrace[3].value # opTrace[4].value
    /\ Len(log) = 3

----------------------------------------------------------------------------
(* enable(), disable() and set_name(n) between reads of the agent record, in
   any order, in check mode or not; as in the controller, a mutation follows
   a read of the record *)

InitMutate ==
    /\ \E c \in BOOLEAN :
        params = [check_mode |-> c, enabled |-> None, name |-> None,
                  assignments |-> None, block_while_busy |-> None,
                  deleted |-> None]
    /\ home = [cfg |-> Some([uuid |-> "U", id |-> Some(1234)]), tmp |-> None]
    /\ \E r \in AgentRecords :
        srv = [pending |-> {}, agent |-> Some(r), assignments |-> <<>>,
               approved |-> TRUE]
    /\ pc = "agent"
    /\ Constructed

EnableCalls ==
    {[kind |-> "enable", field |-> "enabled", value |-> TRUE],
     [kind |-> "disable", field |-> "enabled", value |-> FALSE]}
SetNameCalls ==
    {[kind |-> "set_name", field |-> "name", value |-> n] : n \in {"a", "b"}}

\* enable(), disable(), set_name(n): change() with the POST and the update of
\* state["info"]
AgentChangeCall(c) ==
    /\ pc = "agent"
    /\ Len(opTrace) < MaxOps
    /\ cache.info
    /\ \E o \in Outcomes :
        LET sends == ChangeSends(params.check_mode)
            lg == IF sends THEN Append(log, Req("POST", c.kind, c.kind, None))
                  ELSE log
            st == InfoUpdate(state, c.field, c.value)
        IN  IF sends /\ ~RequestOk("POST", o, TRUE)
            THEN /\ Raise(RequestError(o), lg, ChangeState(FALSE, state, st), cache)
                 /\ UNCHANGED <<srv, opTrace>>
            ELSE /\ Goto(pc, lg, ChangeState(TRUE, state, st), cache)
                 /\ srv' = IF sends THEN SrvAgentSet(srv, c.field, c.value) ELSE srv
                 /\ opTrace' = Append(opTrace, [kind |-> c.kind, value |-> c.value])
    /\ UNCHANGED <<params, home, elapsed, resolved, iter, retry, busyObs, result>>

AgentChange ==
    \/ \E c \in EnableCalls : AgentChangeCall(c)
    \/ \E c \in SetNameCalls : AgentChangeCall(c)

NextMutate ==
    \/ AgentRead
    \/ AgentChange

SpecMutate == InitMutate /\ [][NextMutate]_vars

\* the calls of the trace that set the field a read of kind k returns
ChangesOf(k) ==
    {i \in 1..Len(opTrace) :
        \/ k = "enabled" /\ opTrace[i].kind \in {"enable", "disable"}
        \/ k = "name" /\ opTrace[i].kind = "set_name"}

\* a read of enabled() or name() made after a mutation of its field
ReadAfterChangeStep ==
    (/\ Len(opTrace') = Len(opTrace) + 1
     /\ opTrace'[Len(opTrace')].kind \in {"enabled", "name"}
     /\ ChangesOf(opTrace'[Len(opTrace')].kind) # {})
        => LET k == opTrace'[Len(opTrace')].kind
               last == CHOOSE i \in ChangesOf(k) : \A j \in ChangesOf(k) : j <= i
           IN  /\ log' = log
               /\ opTrace'[Len(opTrace')].value = opTrace[last].value

\* initial["info"] is written once, by the first fetch
InitialInfoStep ==
    IF state.initial["info"] = None
    THEN state'.initial["info"] \in {None, Some(InfoLookup(srv, home))}
    ELSE state'.initial["info"] = state.initial["info"]

\* C31: after enable(), disable() or set_name(n) has succeeded (or was
\* simulated in check mode) a following enabled() or name() issues no request
\* and returns the new value, state.current["info"] holds the new value, and
\* state.initial["info"] still holds the record fetched first.
C31_InfoUpdatedInPlace ==
    /\ [](\A k \in {"enabled", "name"} :
            (error = None /\ ChangesOf(k) # {}) =>
                LET last == CHOOSE i \in ChangesOf(k) : \A j \in ChangesOf(k) : j <= i
                IN  Tracked(state)[k] = opTrace[last].value)
    /\ [][ReadAfterChangeStep /\ InitialInfoStep]_vars

\* an enabled agent named "b" was disabled and renamed; the reads that follow
\* return the new values without a second GET, initial keeps the old ones
C31_Witness ==
    /\ Len(opTrace) = 4
    /\ opTrace[2].kind = "disable"
    /\ opTrace[3].kind = "set_name" /\ opTrace[3].value = "a"
    /\ opTrace[4].kind = "enabled" /\ opTrace[4].value = FALSE
    /\ FirstInfo.enabled /\ FirstInfo.name = "b"
    /\ Tracked(state).name = "a"
    /\ Cardinality(RequestsOfKind("agents")) = 1

----------------------------------------------------------------------------
(* Identity during the availability wait *)

\* one poll of available() by the retry loop of the authenticate phase
IdentityPollStep ==
    (pc = "auth_wait" /\ retry.phase = "query" /\ retry' # retry) =>
        IF ~IdOnDisk
        THEN /\ log' = log
             /\ state' = state
             /\ pc' # NextPhase("authenticate")
        ELSE /\ log' = Append(log, Req("GET", "agents", "authenticate", None))
             /\ (error' = None /\ Listed) => pc' = NextPhase("authenticate")

\* C32: the identity files are read again at every use: during the
\* availability wait a poll made while the config file holds no id returns
\* false without a request, and the first poll made after the id has been
\* written issues an agent-list GET and succeeds when the agent is listed.
C32_IdentityReRead == [][IdentityPollStep]_vars

\* a poll without id has been made and slept on without any agent-list GET;
\* the config file has appeared since, and the next poll will read it
C32_Witness ==
    /\ pc = "auth_wait"
    /\ retry.phase = "query"
    /\ retry.sleeps >= 1
    /\ RequestsOfKind("agents") = {}
    /\ home.tmp # None
    /\ IdOnDisk
    /\ Listed

----------------------------------------------------------------------------
(* Order of the requests of update_assignments *)

\* the entries of d whose key is not a key of other, in the order of d
Missing(d, other) == SelectSeq(d, LAMBDA kv : ~DictHas(other, kv[1]))

\* the requests of one kind follow the order of the entries of todo
InOrder(kind, todo) ==
    \A i \in RequestsOfKind(kind) :
        LET n == Cardinality({j \in RequestsOfKind(kind) : j <= i})
        IN  /\ n <= Len(todo)
            /\ log[i].arg = <<todo[n][2], todo[n][1]>>

\* C33: in update_assignments every add_assignment precedes every
\* remove_assignment, the adds follow the iteration order of the desired
\* mapping and the removes that of the observed mapping, and the observed
\* assignments are read exactly once, before the first mutation.
C33_AddsThenRemoves ==
    /\ \A i \in RequestsOfKind("add_assignment"),
          j \in RequestsOfKind("remove_assignment") : i < j
    /\ Cardinality(RequestsOfKind("assignments")) <= 1
    /\ \A m \in MutatingRequests : \E g \in RequestsOfKind("assignments") : g < m
    /\ pc # "update_assignments" => Cardinality(RequestsOfKind("assignments")) = 1
    /\ MutatingRequests # {} =>
        /\ InOrder("add_assignment", Missing(Val(resolved), FirstAssignments))
        /\ InOrder("remove_assignment", Missing(FirstAssignments, Val(resolved)))

\* two desired entries were missing and one observed entry was not desired:
\* the read, then the add of the first missing entry, then the remove
C33_Witness ==
    /\ UpdateCompleted
    /\ Len(Missing(Val(resolved), FirstAssignments)) = 2
    /\ Len(Missing(FirstAssignments, Val(resolved))) = 1
    /\ Len(log) = 3
    /\ log[1].kind = "assignments"
    /\ log[2].kind = "add_assignment"
    /\ log[2].arg = <<Val(resolved)[1][2], Val(resolved)[1][1]>>
    /\ log[3].kind = "remove_assignment"

----------------------------------------------------------------------------
(* The changed flag of the report *)

\* C34: a completed run without any mutating request still reports
\* changed = true when the agent record fetched again by block_while_busy
\* differs from the record fetched first (busy at the first fetch, idle at the
\* poll): changed compares the first and the last snapshot, not the requests.
C34_ChangedWithoutMutation ==
    (/\ pc = "done"
     /\ MutatingRequests = {}
     /\ busyObs # <<>>
     /\ state.initial["info"] # state.current["info"])
        => /\ result # None
           /\ Val(result).changed

C34_Witness ==
    /\ pc = "done"
    /\ ~params.check_mode
    /\ MutatingRequests = {}
    /\ busyObs = <<FALSE>>
    /\ FirstInfo.busy
    /\ ~Tracked(state).busy
    /\ Val(result).changed
    /\ ~Val(result).deleted

\* a check-mode run that has simulated a mutation: the agent was found not
\* authenticated, a desired value differed from the fetched one, an assignment
\* was missing or in excess, or the deletion was asked for
SimulatedMutation ==
    /\ params.check_mode
    /\ \/ state.initial["authenticated"] = Some(FALSE)
       \/ params.enabled # None /\ Val(params.enabled) # FirstInfo.enabled
       \/ params.name # None /\ Val(params.name) # FirstInfo.name
       \/ /\ params.assignments # None
          /\ \/ Missing(Val(resolved), FirstAssignments) # <<>>
             \/ Missing(FirstAssignments, Val(resolved)) # <<>>
       \/ Truthy(params.deleted)

\* C35: a run that completes without error after at least one mutation was
\* issued, or simulated in check mode (authenticate, enable, disable,
\* set_name, add_assignment, remove_assignment, delete), reports
\* changed = true; the server shows issued mutations in later fetches.
C35_MutationMeansChanged ==
    (pc = "done" /\ (MutatingRequests # {} \/ SimulatedMutation))
        => /\ result # None
           /\ Val(result).changed

\* the only mutation was a rename, and the record was fetched again afterwards
\* by the busy wait
C35_Witness ==
    /\ pc = "done"
    /\ Cardinality(MutatingRequests) = 1
    /\ RequestsOfKind("set_name") # {}
    /\ busyObs # <<>>
    /\ FirstInfo.busy = Tracked(state).busy
    /\ Val(result).changed

\* C36: when deleted is asked for and the run completes, delete() was called
\* exactly once whatever was observed, state["deleted"] went from its initial
\* false to true and the report has changed = true and deleted = true; when it
\* is not asked for, deleted stays false and no delete request is issued.
C36_Delete ==
    /\ state.initial["deleted"] = Some(FALSE)
    /\ Cardinality(RequestsOfKind("delete")) <= 1
    /\ (pc = "done" /\ Truthy(params.deleted))
        => /\ ~params.check_mode => Cardinality(RequestsOfKind("delete")) = 1
           /\ state.current["deleted"] = Some(TRUE)
           /\ Val(result).changed
           /\ Val(result).deleted
    /\ (pc = "done" /\ ~Truthy(params.deleted))
        => /\ RequestsOfKind("delete") = {}
           /\ state.current["deleted"] = Some(FALSE)
           /\ ~Val(result).deleted

\* a deletion was the only thing asked of an agent already in the desired state
C36_Witness ==
    /\ pc = "done"
    /\ ~params.check_mode
    /\ Truthy(params.deleted)
    /\ state.initial["authenticated"] = Some(TRUE)
    /\ MutatingRequests = RequestsOfKind("delete")
    /\ Cardinality(RequestsOfKind("delete")) = 1
    /\ log[Len(log)].kind = "delete"
    /\ Val(result).changed
    /\ Val(result).deleted
    /\ srv.agent = None

\* C37: the desired assignments are resolved only after the authenticate,
\* set_enabled and set_name phases: when the resolution fails with
\* AssignmentNotFound the authentication, enable/disable and rename of the run
\* have been issued and stay in effect on the server, and no assignment is
\* read, added or removed, no busy poll is made and no delete is issued.
C37_ResolveAfterRename ==
    (error # None /\ Val(error).type = "AssignmentNotFound")
        => /\ pc = "failed"
           /\ Val(error).by = "resolve"
           /\ Len(log) = Val(error).requests
           /\ \A k \in {"assignments", "add_assignment", "remove_assignment",
                        "delete"} : RequestsOfKind(k) = {}
           /\ RequestsBy("block_while_busy") = {}
           /\ busyObs = <<>>
           /\ state.initial["authenticated"] # None
           /\ params.enabled # Unread
           /\ params.name # Unread
           /\ ~params.check_mode =>
               /\ state.initial["authenticated"] = Some(FALSE)
                    => /\ Cardinality(RequestsOfKind("authentication")) = 1
                       /\ srv.approved
               /\ params.enabled # None
                    => /\ Val(srv.agent).enabled = Val(params.enabled)
                       /\ (state.initial["info"] # Some(None)
                             /\ Val(params.enabled) # FirstInfo.enabled)
                            => RequestsOfKind(IF Val(params.enabled) THEN "enable"
                                              ELSE "disable") # {}
               /\ params.name # None
                    => /\ Val(srv.agent).name = Val(params.name)
                       /\ (state.initial["info"] # Some(None)
                             /\ Val(params.name) # FirstInfo.name)
                            => RequestsOfKind("set_name") # {}

\* a new agent was approved, disabled and renamed before the unknown key stopped
\* the run
C37_Witness ==
    /\ pc = "failed"
    /\ error # None
    /\ Val(error).type = "AssignmentNotFound"
    /\ ~params.check_mode
    /\ Cardinality(RequestsOfKind("authentication")) = 1
    /\ Cardinality(RequestsOfKind("disable")) = 1
    /\ Cardinality(RequestsOfKind("set_name")) = 1
    /\ log[Len(log)].kind = "search"
    /\ ~Val(srv.agent).enabled
    /\ Val(srv.agent).name = "a"

----------------------------------------------------------------------------
(* Termination of retry() *)

\* retry() is a sequential loop: it goes on to the next invocation and the
\* next sleep as long as it has not returned or raised
SpecRetryLive ==
    InitRetry /\ [][NextRetry]_vars /\ WF_vars(RetryQuery) /\ WF_vars(RetrySleep)

\* a self-recoverable failure of the query under a timeout
RetryFailStep ==
    (/\ pc = "retry"
     /\ Len(opTrace') = Len(opTrace) + 1
     /\ SelfRecoverableFailure(opTrace'[Len(opTrace')])
     /\ retry.timeout # None)
        => IF elapsed > Val(retry.timeout)
           THEN /\ pc' = "raised"
                /\ error' # None
                /\ Val(error').type = "TimeoutError"
           ELSE /\ pc' = "retry"
                /\ retry'.phase = "sleep"
                /\ error' = None

\* C38: with a timeout and time that advances between the attempts retry()
\* always terminates: it returns the result of an invocation that succeeds, or
\* raises TimeoutError at the first self-recoverable failure seen after the
\* deadline (or passes on another error).
C38_RetryTerminates ==
    /\ [][RetryFailStep]_vars
    /\ (retry.timeout # None /\ retry.interval >= 1)
            ~> (pc \in {"returned", "raised"})

\* two failures before the deadline, each followed by a sleep, and the
\* TimeoutError at the third
C38_Witness ==
    /\ pc = "raised"
    /\ error # None
    /\ Val(error).type = "TimeoutError"
    /\ retry.timeout = Some(1)
    /\ retry.interval = 1
    /\ Len(opTrace) = 3
    /\ retry.sleeps = 2
    /\ elapsed = 2

----------------------------------------------------------------------------
(* Reads of absent keys of State *)

\* a read of key k, or an in-place change of what the read returns
DefaultStep ==
    \A k \in ObjKeys :
        LET last == opTrace'[Len(opTrace')] IN
        (Len(opTrace') = Len(opTrace) + 1 /\ last.key = k) =>
            /\ (last.op = "get" /\ state.current[k] = None)
                => /\ ObjChanged(state') = ObjChanged(state)
                   /\ ObjView(state').initial[k] = Some("a")
                   /\ ObjView(state').current[k] = Some("a")
                   /\ state'.initial[k] # state'.current[k]
            /\ last.op = "get" => last.changed = ObjChanged(state)
            /\ (last.op = "mutate"
                  /\ \/ state.current[k] = None
                     \/ ObjView(state).initial[k] = ObjView(state).current[k])
                => /\ ObjChanged(state')
                   /\ ObjView(state').initial[k]
                        = (IF state.current[k] = None THEN Some("a")
                           ELSE ObjView(state).initial[k])
                   /\ ObjView(state').current[k] # ObjView(state').initial[k]

\* C39: reading an absent key of State puts an empty dict under the key in
\* both initial and current, so the read alone never changes the value of
\* changed; changing the returned dict in place afterwards makes changed true.
C39_DefaultOnRead == [][DefaultStep]_vars

C39_Witness ==
    /\ pc = "state"
    /\ Len(opTrace) = 2
    /\ opTrace[1] = [op |-> "get", key |-> "info", changed |-> FALSE]
    /\ opTrace[2] = [op |-> "mutate", key |-> "info", changed |-> TRUE]
    /\ ObjView(state).initial["info"] = Some("a")
    /\ ObjView(state).current["info"] = Some("b")

----------------------------------------------------------------------------
(* The deadline test and the sleeps of retry() *)

\* an invocation of the query that succeeds
RetrySuccessStep ==
    (/\ pc = "retry"
     /\ Len(opTrace') = Len(opTrace) + 1
     /\ opTrace'[Len(opTrace')].kind = "return")
        => /\ pc' = "returned"
           /\ result' = Some(opTrace'[Len(opTrace')].value)
           /\ error' = None
           /\ elapsed' = elapsed

\* C40: retry() tests the deadline only after a failed attempt: an invocation
\* that succeeds is returned even when the deadline has passed, and retry()
\* sleeps exactly once between two consecutive invocations and never after
\* the last one.
C40_DeadlineAfterFailure ==
    /\ [](/\ retry.attempts = Len(opTrace)
          /\ (pc = "retry" /\ retry.phase = "query") => retry.sleeps = retry.attempts
          /\ (pc = "retry" /\ retry.phase = "sleep")
                => retry.sleeps = retry.attempts - 1
          /\ pc \in {"returned", "raised"} => retry.sleeps = retry.attempts - 1)
    /\ [][RetrySuccessStep]_vars

\* the second invocation succeeded when the deadline had passed
C40_Witness ==
    /\ pc = "returned"
    /\ retry.timeout = Some(0)
    /\ elapsed > 0
    /\ Len(opTrace) = 2
    /\ SelfRecoverableFailure(opTrace[1])
    /\ result = Some(opTrace[2].value)
    /\ retry.sleeps = 1

====
